---- MODULE Spec2Model ----
(***************************************************************************)
(* Fine Press Scout: the query understanding and filter resolution engine  *)
(* (app/lib/rag/filters.ts, app/lib/rag/query.ts).                         *)
(*                                                                         *)
(* JavaScript strings are TLA+ strings; a character is a string of length  *)
(* one, read with SubSeq.  An optional value (T | undefined) is a sequence *)
(* of length at most one: <<>> is undefined, <<v>> is the value v.         *)
(* A JavaScript number is the exact decimal fraction [num, den].           *)
(***************************************************************************)
EXTENDS Integers, Sequences, FiniteSets, TLC

\* ---------------------------------------------------------------- values

undefined == <<>>
Some(v) == <<v>>
IsDefined(o) == o # <<>>
Val(o) == o[1]

\* A number n/d, d a power of ten.
Num(n) == [num |-> n, den |-> 1]

\* The number that is no number (parseFloat of a string without a digit).
NaN == [num |-> 0, den |-> 0]

\* What property access on an object literal yields for a name the literal
\* does not define but Object.prototype does: obj["constructor"] is the
\* function Object, obj["__proto__"] is Object.prototype.  Both are truthy
\* and neither is a string.
ObjectConstructor == "function Object() { [native code] }"
ObjectPrototype == "[object Object.prototype]"
NonStringValues == {ObjectConstructor, ObjectPrototype}

\* ---------------------------------------------------------------- characters

LowerChars == "abcdefghijklmnopqrstuvwxyz"
UpperChars == "ABCDEFGHIJKLMNOPQRSTUVWXYZ"
DigitChars == "0123456789"

CharAt(s, i) == SubSeq(s, i, i)
CharsOf(s) == {CharAt(s, i) : i \in 1..Len(s)}

LowerSet == CharsOf(LowerChars)
UpperSet == CharsOf(UpperChars)
DigitSet == CharsOf(DigitChars)
\* \s of a JavaScript regular expression, which is also what trim strips:
\* tab, line feed, vertical tab, form feed, carriage return, space, U+00A0,
\* U+1680 and U+FEFF. (U+2000..U+200A, U+2028, U+2029, U+202F, U+205F and
\* U+3000 belong to it too; they cannot be written in a string here.)
SpaceSet == {" ", "\t", "\n", "", "\f", "\r", " ", " ", "﻿"}
\* \w of a JavaScript regular expression.
WordSet == LowerSet \cup UpperSet \cup DigitSet \cup {"_"}
\* The class \u00c0-\u024f: U+00C0..U+00FF and U+0180..U+01FF. (U+0100..U+017F
\* and U+0200..U+024F belong to it too; they cannot be written in a string
\* here.)
LatinExtSet == CharsOf(
  "ÀÁÂÃÄÅÆÇÈÉÊËÌÍÎÏÐÑÒÓÔÕÖ×ØÙÚÛÜÝÞßàáâãäåæçèéêëìíîïðñòóôõö÷øùúû" \o
  "üýþÿƀƁƂƃƄƅƆƇƈƉƊƋƌƍƎƏƐƑƒƓƔƕƖƗƘƙƚƛƜƝƞƟƠơƢƣƤƥƦƧƨƩƪƫƬƭƮƯưƱƲƳƴƵƶƷ" \o
  "ƸƹƺƻƼƽƾƿǀǁǂǃǄǅǆǇǈǉǊǋǌǍǎǏǐǑǒǓǔǕǖǗǘǙǚǛǜǝǞǟǠǡǢǣǤǥǦǧǨǩǪǫǬǭǮǯǰǱǲǳ" \o
  "ǴǵǶǷǸǹǺǻǼǽǾǿ")
CurrencySet == {"£", "$", "€"}

IndexOf(s, c) == CHOOSE i \in 1..Len(s) : CharAt(s, i) = c

\* The capital letters beyond A-Z that toLowerCase changes, and their
\* lowercase forms in the same order. The lowercase forms of the last 94
\* (U+0253 of U+0181, U+2D00 of U+10A0, ...) cannot be written in a string
\* here: each is stood for by a private-use character of its own (U+E080
\* onwards), which like it is in no class and no table of the program.
UpperExtChars ==
  "ÀÁÂÃÄÅÆÇÈÉÊËÌÍÎÏÐÑÒÓÔÕÖØÙÚÛÜÝÞƂƄƇƋƎƑƘƠƢƤƦƧƩƬƮƯƱƲƳƵƷƸƼǄǅǇǈǊǋǍ" \o
  "ǏǑǓǕǗǙǛǞǠǢǤǦǨǪǬǮǱǲǴǶǷǸǺǼǾΆΈΉΊΌΎΏΑΒΓΔΕΖΗΘΙΚΛΜΝΞΟΠΡΣΤΥΦΧΨΩΪΫϏϘ" \o
  "ϚϜϞϠϢϤϦϨϪϬϮϴϷϹϺҀҊҌҎҐҒҔҖҘҚҜҞҠҢҤҦҨҪҬҮҰҲҴҶҸҺҼҾӀӁӃӅӇӉӋӍӐӒӔӖӘӚӜӞӠ" \o
  "ӢӤӦӨӪӬӮӰӲӴӶӸӺӼӾᎰᎱᎲᎳᎴᎵᎶᎷᎸᎹᎺᎻᎼᎽᎾᎿᏀᏁᏂᏃᏄᏅᏆᏇᏈᏉᏊᏋᏌᏍᏎᏏᏐᏑᏒᏓᏔᏕᏖᏗᏘᏙᏚᏛᏜ" \o
  "ᏝᏞᏟᏠᏡᏢᏣᏤᏥᏦᏧᏨᏩᏪᏫᏬᏭᏮᏯᏰᏱᏲᏳᏴᏵᲉᲐᲑᲒᲓᲔᲕᲖᲗᲘᲙᲚᲛᲜᲝᲞᲟᲠᲡᲢᲣᲤᲥᲦᲧᲨᲩᲪᲫᲬᲭᲮᲯᲰᲱ" \o
  "ᲲᲳᲴᲵᲶᲷᲸᲹᲺᲽᲾᲿẀẂẄẆẈẊẌẎẐẒẔẞẠẢẤẦẨẪẬẮẰẲẴẶẸẺẼẾỀỂỄỆỈỊỌỎỐỒỔỖỘỚỜỞỠỢỤỦ" \o
  "ỨỪỬỮỰỲỴỶỸỺỼỾᾈᾉᾊᾋᾌᾍᾎᾏᾘᾙᾚᾛᾜᾝᾞᾟᾨᾩᾪᾫᾬᾭᾮᾯᾸᾹᾼῌῘῙῨῩῬῼↃⒶⒷⒸⒹⒺⒻⒼⒽⒾⒿⓀⓁⓂ" \o
  "ⓃⓄⓅⓆⓇⓈⓉⓊⓋⓌⓍⓎⓏⲀⲂⲄⲆⲈⲊⲌⲎⲐⲒⲔⲖⲘⲚⲜⲞⲠⲢⲤⲦⲨⲪⲬⲮⲰⲲⲴⲶⲸⲺⲼⲾⳀⳂⳄⳆⳈⳊⳌⳎⳐⳒⳔⳖⳘⳚⳜ" \o
  "ⳞⳠⳢⳫⳭⳲꚀꚂꚄꚆꚈꚊꚌꚎꚐꚒꚔꚖꚘꚚꞀꞂꞄꞆꞋꞐꞒꞖꞘꞚꞜꞞꞠꞢꞤꞦꞨꞰꞱꞲꞴꞶꞸꞺꞼꞾꟀꟂꟄꟅꟆꟇꟉꟌ꟎Ꟑ꟒꟔ꟖꟘ" \o
  "ꟚꟜꟵƁƆƉƊƏƐƓƔƖƗƜƝƟϽϾϿႠႡႢႣႤႥႦႧႨႩႪႫႬႭႮႯႰႱႲႳႴႵႶႷႸႹႺႻႼႽႾႿჀჁჂჃჄჅჇჍᎠ" \o
  "ᎡᎢᎣᎤᎥᎦᎧᎨᎩᎪᎫᎬᎭᎮᎯᾺΆῈΈῊΉῚΊῪΎῸΌῺΏꞍꞪꞫꞬꞭꞮꞳꟋ"
LowerExtChars ==
  "àáâãäåæçèéêëìíîïðñòóôõöøùúûüýþƃƅƈƌǝƒƙơƣƥʀƨʃƭʈưʊʋƴƶʒƹƽǆǆǉǉǌǌǎ" \o
  "ǐǒǔǖǘǚǜǟǡǣǥǧǩǫǭǯǳǳǵƕƿǹǻǽǿάέήίόύώαβγδεζηθικλμνξοπρστυφχψωϊϋϗϙ" \o
  "ϛϝϟϡϣϥϧϩϫϭϯθϸϲϻҁҋҍҏґғҕҗҙқҝҟҡңҥҧҩҫҭүұҳҵҷҹһҽҿӏӂӄӆӈӊӌӎӑӓӕӗәӛӝӟӡ" \o
  "ӣӥӧөӫӭӯӱӳӵӷӹӻӽӿꮀꮁꮂꮃꮄꮅꮆꮇꮈꮉꮊꮋꮌꮍꮎꮏꮐꮑꮒꮓꮔꮕꮖꮗꮘꮙꮚꮛꮜꮝꮞꮟꮠꮡꮢꮣꮤꮥꮦꮧꮨꮩꮪꮫꮬ" \o
  "ꮭꮮꮯꮰꮱꮲꮳꮴꮵꮶꮷꮸꮹꮺꮻꮼꮽꮾꮿᏸᏹᏺᏻᏼᏽᲊაბგდევზთიკლმნოპჟრსტუფქღყშჩცძწჭხჯჰჱ" \o
  "ჲჳჴჵჶჷჸჹჺჽჾჿẁẃẅẇẉẋẍẏẑẓẕßạảấầẩẫậắằẳẵặẹẻẽếềểễệỉịọỏốồổỗộớờởỡợụủ" \o
  "ứừửữựỳỵỷỹỻỽỿᾀᾁᾂᾃᾄᾅᾆᾇᾐᾑᾒᾓᾔᾕᾖᾗᾠᾡᾢᾣᾤᾥᾦᾧᾰᾱᾳῃῐῑῠῡῥῳↄⓐⓑⓒⓓⓔⓕⓖⓗⓘⓙⓚⓛⓜ" \o
  "ⓝⓞⓟⓠⓡⓢⓣⓤⓥⓦⓧⓨⓩⲁⲃⲅⲇⲉⲋⲍⲏⲑⲓⲕⲗⲙⲛⲝⲟⲡⲣⲥⲧⲩⲫⲭⲯⲱⲳⲵⲷⲹⲻⲽⲿⳁⳃⳅⳇⳉⳋⳍⳏⳑⳓⳕⳗⳙⳛⳝ" \o
  "ⳟⳡⳣⳬⳮⳳꚁꚃꚅꚇꚉꚋꚍꚏꚑꚓꚕꚗꚙꚛꞁꞃꞅꞇꞌꞑꞓꞗꞙꞛꞝꞟꞡꞣꞥꞧꞩʞʇʝꞵꞷꞹꞻꞽꞿꟁꟃꞔʂᶎꟈꟊꟍ꟏ꟑꟓꟕꟗꟙ" \o
  "ꟛƛꟶ" \o
  ""
UpperExtSet == CharsOf(UpperExtChars)

\* The cased letters beyond A-Z and a-z, and the case-ignorable characters
\* (apostrophe, full stop, colon, accents, combining marks, modifier letters),
\* as far as they can be written in a string here (the grave accent U+0060
\* cannot).
CasedSet == LowerSet \cup UpperSet \cup CharsOf(
  "ªµºÀÁÂÃÄÅÆÇÈÉÊËÌÍÎÏÐÑÒÓÔÕÖØÙÚÛÜÝÞßàáâãäåæçèéêëìíîïðñòóôõöøùú" \o
  "ûüýþÿƀƁƂƃƄƅƆƇƈƉƊƋƌƍƎƏƐƑƒƓƔƕƖƗƘƙƚƛƜƝƞƟƠơƢƣƤƥƦƧƨƩƪƫƬƭƮƯưƱƲƳƴƵƶ" \o
  "ƷƸƹƺƼƽƾƿǄǅǆǇǈǉǊǋǌǍǎǏǐǑǒǓǔǕǖǗǘǙǚǛǜǝǞǟǠǡǢǣǤǥǦǧǨǩǪǫǬǭǮǯǰǱǲǳǴǵǶǷ" \o
  "ǸǹǺǻǼǽǾǿʀʁʂʃʄʅʆʇʈʉʊʋʌʍʎʏʐʑʒʓʖʗʘʙʚʛʜʝʞʟʠʡʢʣʤʥʦʧʨʩʪʫʬʭʮʯΆΈΉΊΌΎ" \o
  "ΏΐΑΒΓΔΕΖΗΘΙΚΛΜΝΞΟΠΡΣΤΥΦΧΨΩΪΫάέήίΰαβγδεζηθικλμνξοπρςστυφχψωϊϋ" \o
  "όύώϏϐϑϒϓϔϕϖϗϘϙϚϛϜϝϞϟϠϡϢϣϤϥϦϧϨϩϪϫϬϭϮϯϰϱϲϳϴϵϷϸϹϺϻϼϽϾϿҀҁҊҋҌҍҎҏҐ" \o
  "ґҒғҔҕҖҗҘҙҚқҜҝҞҟҠҡҢңҤҥҦҧҨҩҪҫҬҭҮүҰұҲҳҴҵҶҷҸҹҺһҼҽҾҿӀӁӂӃӄӅӆӇӈӉӊӋӌ" \o
  "ӍӎӏӐӑӒӓӔӕӖӗӘәӚӛӜӝӞӟӠӡӢӣӤӥӦӧӨөӪӫӬӭӮӯӰӱӲӳӴӵӶӷӸӹӺӻӼӽӾӿրցւփքօֆևֈ" \o
  "ႠႡႢႣႤႥႦႧႨႩႪႫႬႭႮႯႰႱႲႳႴႵႶႷႸႹႺႻႼႽႾႿჀჁჂჃჄჅჇჍაბგდევზთიკლმნოპჟრსტუ" \o
  "ფქღყშჩცძწჭხჯჰჱჲჳჴჵჶჷჸჹჺჽჾჿᎠᎡᎢᎣᎤᎥᎦᎧᎨᎩᎪᎫᎬᎭᎮᎯᎰᎱᎲᎳᎴᎵᎶᎷᎸᎹᎺᎻᎼᎽᎾᎿᏀᏁ" \o
  "ᏂᏃᏄᏅᏆᏇᏈᏉᏊᏋᏌᏍᏎᏏᏐᏑᏒᏓᏔᏕᏖᏗᏘᏙᏚᏛᏜᏝᏞᏟᏠᏡᏢᏣᏤᏥᏦᏧᏨᏩᏪᏫᏬᏭᏮᏯᏰᏱᏲᏳᏴᏵᏸᏹᏺᏻᏼᏽᲀᲁ" \o
  "ᲂᲃᲄᲅᲆᲇᲈᲉᲊᲐᲑᲒᲓᲔᲕᲖᲗᲘᲙᲚᲛᲜᲝᲞᲟᲠᲡᲢᲣᲤᲥᲦᲧᲨᲩᲪᲫᲬᲭᲮᲯᲰᲱᲲᲳᲴᲵᲶᲷᲸᲹᲺᲽᲾᲿᶀᶁᶂᶃᶄ" \o
  "ᶅᶆᶇᶈᶉᶊᶋᶌᶍᶎᶏᶐᶑᶒᶓᶔᶕᶖᶗᶘᶙᶚẀẁẂẃẄẅẆẇẈẉẊẋẌẍẎẏẐẑẒẓẔẕẖẗẘẙẚẛẜẝẞẟẠạẢảẤấ" \o
  "ẦầẨẩẪẫẬậẮắẰằẲẳẴẵẶặẸẹẺẻẼẽẾếỀềỂểỄễỆệỈỉỊịỌọỎỏỐốỒồỔổỖỗỘộỚớỜờỞởỠỡ" \o
  "ỢợỤụỦủỨứỪừỬửỮữỰựỲỳỴỵỶỷỸỹỺỻỼỽỾỿᾀᾁᾂᾃᾄᾅᾆᾇᾈᾉᾊᾋᾌᾍᾎᾏᾐᾑᾒᾓᾔᾕᾖᾗᾘᾙᾚᾛᾜᾝ" \o
  "ᾞᾟᾠᾡᾢᾣᾤᾥᾦᾧᾨᾩᾪᾫᾬᾭᾮᾯᾰᾱᾲᾳᾴᾶᾷᾸᾹᾺΆᾼιῂῃῄῆῇῈΈῊΉῌῐῑῒΐῖῗῘῙῚΊῠῡῢΰῤῥῦῧῨ" \o
  "ῩῪΎῬῲῳῴῶῷῸΌῺΏῼↃↄⒶⒷⒸⒹⒺⒻⒼⒽⒾⒿⓀⓁⓂⓃⓄⓅⓆⓇⓈⓉⓊⓋⓌⓍⓎⓏⓐⓑⓒⓓⓔⓕⓖⓗⓘⓙⓚⓛⓜⓝⓞⓟⓠⓡ" \o
  "ⓢⓣⓤⓥⓦⓧⓨⓩⲀⲁⲂⲃⲄⲅⲆⲇⲈⲉⲊⲋⲌⲍⲎⲏⲐⲑⲒⲓⲔⲕⲖⲗⲘⲙⲚⲛⲜⲝⲞⲟⲠⲡⲢⲣⲤⲥⲦⲧⲨⲩⲪⲫⲬⲭⲮⲯⲰⲱⲲⲳ" \o
  "ⲴⲵⲶⲷⲸⲹⲺⲻⲼⲽⲾⲿⳀⳁⳂⳃⳄⳅⳆⳇⳈⳉⳊⳋⳌⳍⳎⳏⳐⳑⳒⳓⳔⳕⳖⳗⳘⳙⳚⳛⳜⳝⳞⳟⳠⳡⳢⳣⳤⳫⳬⳭⳮⳲⳳꚀꚁꚂꚃꚄ" \o
  "ꚅꚆꚇꚈꚉꚊꚋꚌꚍꚎꚏꚐꚑꚒꚓꚔꚕꚖꚗꚘꚙꚚꚛꞀꞁꞂꞃꞄꞅꞆꞇꞋꞌꞍꞎꞐꞑꞒꞓꞔꞕꞖꞗꞘꞙꞚꞛꞜꞝꞞꞟꞠꞡꞢꞣꞤꞥꞦꞧꞨ" \o
  "ꞩꞪꞫꞬꞭꞮꞯꞰꞱꞲꞳꞴꞵꞶꞷꞸꞹꞺꞻꞼꞽꞾꞿꟀꟁꟂꟃꟄꟅꟆꟇꟈꟉꟊꟋꟌꟍ꟎꟏Ꟑꟑ꟒ꟓ꟔ꟕꟖꟗꟘꟙꟚꟛꟜꟵꟶꟺꮀꮁꮂꮃꮄ" \o
  "ꮅꮆꮇꮈꮉꮊꮋꮌꮍꮎꮏꮐꮑꮒꮓꮔꮕꮖꮗꮘꮙꮚꮛꮜꮝꮞꮟꮠꮡꮢꮣꮤꮥꮦꮧꮨꮩꮪꮫꮬꮭꮮꮯꮰꮱꮲꮳꮴꮵꮶꮷꮸꮹꮺꮻꮼꮽꮾꮿ")
CaseIgnorableSet == CharsOf(
  "'.:^¨­¯´·¸ʰʱʲʳʴʵʶʷʸʹʺʻʼʽʾʿˀˁ˂˃˄˅ˆˇˈˉˊˋˌˍˎˏːˑ˒˓˔˕˖˗˘˙˚˛˜˝˞˟ˠˡ" \o
  "ˢˣˤ˥˦˧˨˩˪˫ˬ˭ˮ˯˰˱˲˳˴˵˶˷˸˹˺˻˼˽˾˿΄΅·҃҄҅҆҇҈҉֑֖֛֢֣֤֚֒֓֔֕֗֘֙֜֝֞֟֠֡" \o
  "ְֱֲֳִֵֶַָׇֹֺֻּֽֿׁׂ֥֦֧֪ׅ֭֮֨֩֫֬֯ׄ״ۖۗۘۙۚۛۜ۝ۣ۟۠ۡۢۤۥۦ۪ۭۧۨ۫۬ަާިީުޫ" \o
  "ެޭޮޯް߲߫߬߭߮߯߰߱߳ߴߵߺ߽࢈࢐࢑࢙࢚࢛ࢗ࢘࢜࢝࢞࢟ࣉ࣏࣐࣑࣒࣓࣊࣋࣌࣍࣎ࣔࣕࣖࣗࣘࣙࣚࣛࣜࣝࣞࣟ࣠࣡࣢ࣣࣦࣤࣥ" \o
  "ࣰࣱࣲࣩ࣭࣮࣯ࣶࣹࣺࣧࣨ࣪࣫࣬ࣳࣴࣵࣷࣸࣻࣼࣽࣾࣿঁ়ুূৃৄ্ৢৣ৾ઁં઼ુૂૃૄૅેૈ્ૢૣૺૻૼ૽૾૿ஂீ்ಁ಼ಿ" \o
  "ೆೌ್ೢೣඁ්ිීුූັິີຶື຺ຸູົຼໆ່້໊໋໌ໍ໎྄ཱྀྀྂྃ྆྇ྍྎྏྐྑྒྒྷྔྕྖྗྙྚྛྜྜྷྞྟྠྡྡྷྣྤྥ" \o
  "ྦྦྷྨྩྪྫྫྷྭྮྯྰྱྲླྴྵྶྷྸྐྵྺྻྼ࿆ႂႅႆႍႝჼ឴឵ិីឹឺុូួំ៉៊់៌៍៎៏័៑្៓ៗ៝ᢅᢆᢩᪧ᪰᪱᪲" \o
  "᪵᪶᪷᪸᪹᪺᪽᪳᪴᪻᪼᪾ᪿᫀ᫃᫄᫊᫁᫂᫅᫆᫇᫈᫉᫋ᫌᫍᫎ᫏᫐᫑᫒᫓᫔᫕᫖᫗᫘᫙᫚᫛᫜᫝᫠᫡᫢᫣᫤᫥᫦᫧᫨᫩᫪᫫ᮀᮁᮢᮣᮤ" \o
  "ᮥᮨᮩ᮫ᮬᮭ᯦ᯨᯩᯭᯯᯰᯱ᳔᳢᳣᳤᳥᳦᳧᳨᳕᳖᳗᳘᳙᳜᳝᳞᳟᳭᳐᳑᳒᳚᳛᳠᳴᳸᳹ᶛᶜᶝᶞᶟᶠᶡᶢᶣᶤᶥᶦᶧᶨᶩᶪᶫᶬᶭᶮ" \o
  "ᶯᶰᶱᶲᶳᶴᶵᶶᶷᶸᶹᶺᶻᶼᶽᶾᶿ᷐᷎᷂᷊᷏᷀᷁᷃᷄᷅᷆᷇᷈᷉᷋᷌᷑᷒ᷓᷔᷕᷖᷗᷘᷙᷚᷛᷜᷝᷞᷟᷠᷡᷢᷣᷤᷥᷦᷧᷨᷩᷪ᷍" \o
  "᷺᷹᷽᷿᷷᷸ᷫᷬᷭᷮᷯᷰᷱᷲᷳᷴ᷵᷻᷾᷶᷼᾽᾿῀῁῍῎῏῝῞῟῭΅`´῾ₐₑₒₓₔₕₖₗₘₙₚₛₜ⃒⃓⃘⃙⃚⃐⃑⃔⃕⃖⃗" \o
  "⃛⃜⃝⃞⃟⃠⃡⃢⃣⃤⃥⃦⃪⃫゙゚⃨⃬⃭⃮⃯⃧⃩⃰⳯⳰⳱ⷠⷡⷢⷣⷤⷥⷦⷧⷨⷩⷪⷫⷬⷭⷮⷯⷰⷱⷲⷳⷴⷵⷶⷷⷸⷹⷺⷻⷼⷽⷾⷿ゛" \o
  "゜ゝゞーヽヾꓸꓹꓺꓻꓼꓽꚜꚝꚞꚟ꛰꛱ꞈ꞉꞊꟱ꟲꟳꟴꟸꟹ꣄ꣅ꣠꣡꣢꣣꣤꣥꣦꣧꣨꣩꣪꣫꣬꣭꣮꣯꣰꣱ꣿꦀꦁꦂ꦳ꦶꦷꦸꦹꦼꦽꧏꧥ" \o
  "ꧦꪴꪰꪲꪳꪷꪸꪾ꪿꫁ꫝꫬꫭꫳꫴ꫶ꯥꯨ꯭﮲﮳﮴﮵﮶﮷﮸﮹﮺﮻﮼﮽﮾﮿﯀﯁﯂﻿ﾞﾟ￣￹￺￻")

\* The first index >= i of s whose character is not in set (Len(s)+1 if none).
RECURSIVE SkipWhile(_, _, _)
SkipWhile(s, i, set) ==
  IF i <= Len(s) /\ CharAt(s, i) \in set THEN SkipWhile(s, i + 1, set) ELSE i

\* The last index <= i of s whose character is not in set (0 if none).
RECURSIVE SkipBackWhile(_, _, _)
SkipBackWhile(s, i, set) ==
  IF i >= 1 /\ CharAt(s, i) \in set THEN SkipBackWhile(s, i - 1, set) ELSE i

\* The capital sigma at index i of s ends a word: a cased letter comes before
\* it and none after it, case-ignorable characters in between skipped.
FinalSigma(s, i) ==
  /\ SkipBackWhile(s, i - 1, CaseIgnorableSet) >= 1
  /\ CharAt(s, SkipBackWhile(s, i - 1, CaseIgnorableSet)) \in CasedSet
  /\ \/ SkipWhile(s, i + 1, CaseIgnorableSet) > Len(s)
     \/ CharAt(s, SkipWhile(s, i + 1, CaseIgnorableSet)) \notin CasedSet

\* The lowercase form of one character on its own.
toLowerChar(c) ==
  IF c \in UpperSet THEN CharAt(LowerChars, IndexOf(UpperChars, c))
  ELSE IF c \in UpperExtSet THEN CharAt(LowerExtChars, IndexOf(UpperExtChars, c))
  ELSE c

\* The characters of s.toLowerCase() from index i on.
RECURSIVE LowerFrom(_, _)
LowerFrom(s, i) ==
  IF i > Len(s) THEN ""
  ELSE (IF CharAt(s, i) = "Σ" /\ FinalSigma(s, i) THEN "ς" ELSE toLowerChar(CharAt(s, i)))
       \o LowerFrom(s, i + 1)

\* String.prototype.toLowerCase
toLowerCase(s) == LowerFrom(s, 1)

\* s.startsWith(sub, i - 1): sub occurs in s at position i (1-based)
OccursAt(s, sub, i) == i + Len(sub) - 1 <= Len(s) /\ SubSeq(s, i, i + Len(sub) - 1) = sub

\* String.prototype.includes
Includes(s, sub) == \E i \in 1..(Len(s) - Len(sub) + 1) : SubSeq(s, i, i + Len(sub) - 1) = sub

\* String.prototype.trim
RECURSIVE TrimLeft(_)
TrimLeft(s) == IF Len(s) > 0 /\ CharAt(s, 1) \in SpaceSet THEN TrimLeft(SubSeq(s, 2, Len(s))) ELSE s
RECURSIVE TrimRight(_)
TrimRight(s) == IF Len(s) > 0 /\ CharAt(s, Len(s)) \in SpaceSet THEN TrimRight(SubSeq(s, 1, Len(s) - 1)) ELSE s
trim(s) == TrimRight(TrimLeft(s))

\* Array.prototype.join(' ')
RECURSIVE JoinFrom(_, _)
JoinFrom(parts, i) ==
  IF i > Len(parts) THEN ""
  ELSE IF i = Len(parts) THEN parts[i]
  ELSE parts[i] \o " " \o JoinFrom(parts, i + 1)
join(parts) == JoinFrom(parts, 1)

\* \b at position i: between s[i-1] and s[i] exactly one is a word character.
WordBoundary(s, i) ==
  LET before == i > 1 /\ i - 1 <= Len(s) /\ CharAt(s, i - 1) \in WordSet
      after == i >= 1 /\ i <= Len(s) /\ CharAt(s, i) \in WordSet
  IN before # after

\* The first index >= i of s whose character is in set (Len(s)+1 if none).
RECURSIVE SkipUntil(_, _, _)
SkipUntil(s, i, set) ==
  IF i <= Len(s) /\ CharAt(s, i) \notin set THEN SkipUntil(s, i + 1, set) ELSE i

Min(S) == CHOOSE m \in S : \A n \in S : m <= n
Max(S) == CHOOSE m \in S : \A n \in S : m >= n

\* ---------------------------------------------------------------- tables

\* filters.ts PUBLISHER_ALIASES: <<aliases, canonical>>, in table order.
PUBLISHER_ALIASES == <<
  << <<"conversation tree press", "conversation tree">>, "Conversation Tree Press" >>,
  << <<"subterranean press", "sub press", "subterranean">>, "Subterranean Press" >>,
  << <<"centipede press", "centipede">>, "Centipede Press" >>,
  << <<"curious king">>, "Curious King" >>,
  << <<"suntup press", "suntup">>, "Suntup Press" >>,
  << <<"midworld press", "midworld">>, "Midworld Press" >>,
  << <<"zagava">>, "Zagava" >> >>

\* filters.ts AUTHOR_ALIAS_MAP: <<key, value>> in insertion order.
AUTHOR_ALIAS_MAP == <<
  <<"ligotti", "Thomas Ligotti">>,
  <<"barron", "Laird Barron">>,
  <<"gaiman", "Neil Gaiman">>,
  <<"king", "Stephen King">>,
  <<"straub", "Peter Straub">>,
  <<"watts", "Peter Watts">>,
  <<"mieville", "China Miéville">>,
  <<"miéville", "China Miéville">>,
  <<"vandermeer", "Jeff VanderMeer">>,
  <<"lansdale", "Joe R. Lansdale">>,
  <<"james", "M.R. James">>,
  <<"machen", "Arthur Machen">>,
  <<"blackwood", "Algernon Blackwood">>,
  <<"lovecraft", "H.P. Lovecraft">> >>

\* filters.ts KEYWORD_EDITION_MAP: <<key, value>> in insertion order.
KEYWORD_EDITION_MAP == <<
  <<"lettered edition", "Lettered">>,
  <<"lettered copy", "Lettered">>,
  <<"lettered copies", "Lettered">>,
  <<"lettered", "Lettered">>,
  <<"remarqued", "Remarqued">>,
  <<"artist edition", "Artist">>,
  <<"artist", "Artist">>,
  <<"traycase edition", "Traycased">>,
  <<"traycased", "Traycased">>,
  <<"traycase", "Traycased">>,
  <<"hand-numbered", "Hand-numbered">>,
  <<"hand numbered", "Hand-numbered">>,
  <<"limited edition", "Limited">>,
  <<"limited numbered", "Limited">>,
  <<"limited run", "Limited">>,
  <<"numbered", "Limited">>,
  <<"limited", "Limited">>,
  <<"collector's edition", "Collector">>,
  <<"hand-signed", "Collector">>,
  <<"signed edition", "Collector">>,
  <<"collector's", "Collector">>,
  <<"collector", "Collector">>,
  <<"signed", "Collector">>,
  <<"deluxe edition", "Deluxe">>,
  <<"deluxe", "Deluxe">>,
  <<"trade edition", "Trade">>,
  <<"trade", "Trade">>,
  <<"standard", "Standard">> >>

\* types.ts EditionType
EditionType == {"Trade", "Limited", "Artist", "Lettered", "Deluxe", "Collector",
                "Standard", "Traycased", "Hand-numbered", "Remarqued"}

\* filters.ts GENRE_VOCABULARY
GENRE_VOCABULARY == <<
  "cosmic horror", "weird fiction", "dark fantasy", "literary horror",
  "science fiction", "lovecraftian", "sci-fi", "horror", "fantasy", "occult",
  "gothic", "supernatural", "thriller", "dark fiction" >>

\* filters.ts AVAILABILITY_MAP: <<phrases, state>>, in table order.
AVAILABILITY_MAP == <<
  << <<"pre-order", "preorder", "pre order", "coming soon", "on order">>, "preorder" >>,
  << <<"sold out", "sold-out", "out of print", "out of stock", "unavailable">>, "sold_out" >>,
  << <<"in print", "in-print", "available now", "available", "in stock">>, "in_print" >> >>

FILTER_SLOT_COUNT == 6

\* Object.keys(map)
ObjectKeys(map) == [i \in 1..Len(map) |-> map[i][1]]

\* map[key] on an object literal: an own property, else what the prototype
\* chain gives, else undefined.
ObjectGet(map, key) ==
  IF \E i \in 1..Len(map) : map[i][1] = key
  THEN Some(map[CHOOSE i \in 1..Len(map) : map[i][1] = key][2])
  ELSE IF key = "constructor" THEN Some(ObjectConstructor)
  ELSE IF key = "__proto__" THEN Some(ObjectPrototype)
  ELSE undefined

\* ---------------------------------------------------------------- extractors

\* The canonical value of the first table row one of whose phrases occurs in q.
FirstRowMatch(table, q) ==
  LET hits == {i \in 1..Len(table) :
                 \E j \in 1..Len(table[i][1]) : Includes(q, table[i][1][j])}
  IN IF hits = {} THEN undefined ELSE Some(table[Min(hits)][2])

\* Mutant: the last row with an alias in the query decides.
extractPublisher_mutLastRow(query) ==
  LET hits == {i \in 1..Len(PUBLISHER_ALIASES) :
                 \E j \in 1..Len(PUBLISHER_ALIASES[i][1]) :
                   Includes(toLowerCase(query), PUBLISHER_ALIASES[i][1][j])}
  IN IF hits = {} THEN undefined
     ELSE Some(PUBLISHER_ALIASES[CHOOSE i \in hits : \A j \in hits : j <= i][2])

extractPublisher(query) == FirstRowMatch(PUBLISHER_ALIASES, toLowerCase(query))

\* [A-Z][a-z]+ at i: the index after it, 0 when it does not match.
CapWordEnd(s, i) ==
  IF i <= Len(s) /\ CharAt(s, i) \in UpperSet
  THEN LET e == SkipWhile(s, i + 1, LowerSet) IN IF e > i + 1 THEN e ELSE 0
  ELSE 0

\* \s+ at i: the index after it, 0 when it does not match.
SpacesEnd(s, i) == LET e == SkipWhile(s, i, SpaceSet) IN IF e > i THEN e ELSE 0

\* (?:\s+[A-Z][a-z]+)* greedily from e, the index after a capitalized word.
RECURSIVE NameChainEnd(_, _)
NameChainEnd(s, e) ==
  LET sp == SpacesEnd(s, e)
      w == IF sp = 0 THEN 0 ELSE CapWordEnd(s, sp)
  IN IF w = 0 THEN e ELSE NameChainEnd(s, w)

\* [A-Z][a-z]+(?:\s+[A-Z][a-z]+)+ at i: the index after it, 0 when no match.
CapNameEnd(s, i) ==
  LET w1 == CapWordEnd(s, i)
  IN IF w1 = 0 THEN 0
     ELSE LET e == NameChainEnd(s, w1) IN IF e = w1 THEN 0 ELSE e

\* /\bby\s+([A-Z][a-z]+(?:\s+[A-Z][a-z]+)+)/ : the capture of the leftmost match.
byMatch(query) ==
  LET ok(i) == /\ WordBoundary(query, i)
               /\ OccursAt(query, "by", i)
               /\ SpacesEnd(query, i + 2) # 0
               /\ CapNameEnd(query, SpacesEnd(query, i + 2)) # 0
      hits == {i \in 1..Len(query) : ok(i)}
  IN IF hits = {} THEN undefined
     ELSE LET sp == SpacesEnd(query, Min(hits) + 2)
          IN Some(SubSeq(query, sp, CapNameEnd(query, sp) - 1))

\* titles?\b at t
TitlesAt(s, t) ==
  /\ OccursAt(s, "title", t)
  /\ \/ OccursAt(s, "s", t + 5) /\ WordBoundary(s, t + 6)
     \/ WordBoundary(s, t + 5)

\* /\b([A-Z][a-z]+(?:\s+[A-Z][a-z]+)+)\s+titles?\b/ : the capture of the leftmost match.
titlesMatch(query) ==
  LET ok(i) == /\ WordBoundary(query, i)
               /\ CapNameEnd(query, i) # 0
               /\ SpacesEnd(query, CapNameEnd(query, i)) # 0
               /\ TitlesAt(query, SpacesEnd(query, CapNameEnd(query, i)))
      hits == {i \in 1..Len(query) : ok(i)}
  IN IF hits = {} THEN undefined
     ELSE Some(SubSeq(query, Min(hits), CapNameEnd(query, Min(hits)) - 1))

\* s.slice(i - 1).split(/\s+/): the pieces between the runs of whitespace; a
\* run at the start or the end leaves an empty piece there, and the empty
\* string is one empty piece.
RECURSIVE SplitFrom(_, _)
SplitFrom(s, i) ==
  IF SkipUntil(s, i, SpaceSet) > Len(s) THEN <<SubSeq(s, i, Len(s))>>
  ELSE <<SubSeq(s, i, SkipUntil(s, i, SpaceSet) - 1)>>
       \o SplitFrom(s, SkipWhile(s, SkipUntil(s, i, SpaceSet), SpaceSet))
split(s) == SplitFrom(s, 1)

\* word.replace(/[^a-zÀ-ɏ]/g, '')
RECURSIVE CleanFrom(_, _)
CleanFrom(w, i) ==
  IF i > Len(w) THEN ""
  ELSE (IF CharAt(w, i) \in LowerSet \cup LatinExtSet THEN CharAt(w, i) ELSE "")
       \o CleanFrom(w, i + 1)
cleaned(word) == CleanFrom(word, 1)

\* The surname scan over the table map: the first word whose cleaned form
\* has a truthy entry.
aliasScan(map, query) ==
  LET words == split(toLowerCase(query))
      hits == {i \in 1..Len(words) : IsDefined(ObjectGet(map, cleaned(words[i])))}
  IN IF hits = {} THEN undefined
     ELSE ObjectGet(map, cleaned(words[Min(hits)]))

aliasMatch(query) == aliasScan(AUTHOR_ALIAS_MAP, query)

\* if (m) return m; ...rest
OrElse(m, rest) == IF m # undefined THEN m ELSE rest

\* Mutant: the surname table is consulted before the phrase patterns.
extractAuthor_mutAliasFirst(query) ==
  OrElse(aliasMatch(query), OrElse(byMatch(query), titlesMatch(query)))

extractAuthor(query) == OrElse(byMatch(query), OrElse(titlesMatch(query), aliasMatch(query)))

\* keys.sort((a, b) => b.length - a.length): stable, longest first.
RECURSIVE SortFromLength(_, _)
SortFromLength(keys, n) ==
  IF n = 0 THEN <<>>
  ELSE SelectSeq(keys, LAMBDA k : Len(k) = n) \o SortFromLength(keys, n - 1)

MaxKeyLength(keys) == CHOOSE n \in {Len(keys[i]) : i \in 1..Len(keys)} :
                        \A i \in 1..Len(keys) : Len(keys[i]) <= n

sortByLengthDesc(keys) == SortFromLength(keys, MaxKeyLength(keys))

sortedKeys == sortByLengthDesc(ObjectKeys(KEYWORD_EDITION_MAP))

\* Mutant: the last key of the order that occurs decides.
FirstKeyMatch_mutLastKey(keys, map, q) ==
  LET hits == {i \in 1..Len(keys) : Includes(q, keys[i])}
  IN IF hits = {} THEN undefined
     ELSE ObjectGet(map, keys[CHOOSE i \in hits : \A j \in hits : j <= i])

\* The value of the first key, in the order given, that occurs in q.
FirstKeyMatch(keys, map, q) ==
  LET hits == {i \in 1..Len(keys) : Includes(q, keys[i])}
  IN IF hits = {} THEN undefined ELSE ObjectGet(map, keys[Min(hits)])

extractEditionType(query) == FirstKeyMatch(sortedKeys, KEYWORD_EDITION_MAP, toLowerCase(query))

\* words[1] \s+ words[2] \s+ ... at i: the index after it, 0 when no match.
RECURSIVE PhraseEnd(_, _, _, _)
PhraseEnd(s, i, words, k) ==
  IF ~OccursAt(s, words[k], i) THEN 0
  ELSE IF k = Len(words) THEN i + Len(words[k])
  ELSE LET sp == SpacesEnd(s, i + Len(words[k]))
       IN IF sp = 0 THEN 0 ELSE PhraseEnd(s, sp, words, k + 1)

\* The alternatives of the trigger group of pass 1, in the order written.
PRICE_TRIGGERS == <<
  <<"under">>, <<"less", "than">>, <<"below">>, <<"cheaper", "than">>, <<"up", "to">>,
  <<"no", "more", "than">>, <<"at", "most">>, <<"maximum">>, <<"max">>,
  <<"budget", "of">>, <<"budget", "is">>, <<"budget", ":">>, <<"<">> >>

\* (?:dollars?|usd|eur|gbp|pounds?)
CURRENCY_WORDS == <<"dollars", "dollar", "usd", "eur", "gbp", "pounds", "pound">>

\* \d+(?:\.\d+)? at i: the index after it, 0 when no match.
NumberEnd(s, i) ==
  LET d == SkipWhile(s, i, DigitSet)
      f == IF OccursAt(s, ".", d) THEN SkipWhile(s, d + 1, DigitSet) ELSE d
  IN IF d = i THEN 0 ELSE IF f > d + 1 THEN f ELSE d

\* \s*[£$€]?\s* at i: the index after it.
CurrencyPrefixEnd(s, i) ==
  LET a == SkipWhile(s, i, SpaceSet)
      b == IF a <= Len(s) /\ CharAt(s, a) \in CurrencySet THEN a + 1 ELSE a
  IN SkipWhile(s, b, SpaceSet)

DigitVal(c) == IndexOf(DigitChars, c) - 1

RECURSIVE DigitsValue(_, _, _)
DigitsValue(s, i, acc) ==
  IF i > Len(s) THEN acc ELSE DigitsValue(s, i + 1, acc * 10 + DigitVal(CharAt(s, i)))

RECURSIVE Pow10(_)
Pow10(k) == IF k = 0 THEN 1 ELSE 10 * Pow10(k - 1)

RECURSIVE Reduce10(_)
Reduce10(x) ==
  IF x.den > 1 /\ x.num % 10 = 0 THEN Reduce10([num |-> x.num \div 10, den |-> x.den \div 10])
  ELSE x

\* parseFloat of a string of the shape \d*(?:\.\d*)?
parseFloat(s) ==
  LET d == SkipWhile(s, 1, DigitSet)
      int == DigitsValue(SubSeq(s, 1, d - 1), 1, 0)
      frac == SubSeq(s, d + 1, Len(s))
  IN IF d = 1 /\ Len(frac) = 0 THEN NaN
     ELSE IF d > Len(s) THEN Num(int)
     ELSE Reduce10([num |-> int * Pow10(Len(frac)) + DigitsValue(frac, 1, 0),
                    den |-> Pow10(Len(frac))])

\* Pass 1 at i: <<start, end>> of the captured number, <<>> when no match.
TriggerFirstAt(s, i) ==
  LET ends == {PhraseEnd(s, i, PRICE_TRIGGERS[t], 1) : t \in 1..Len(PRICE_TRIGGERS)} \ {0}
      good == {e \in ends : NumberEnd(s, CurrencyPrefixEnd(s, e)) # 0}
  IN IF good = {} THEN <<>>
     ELSE LET c == CurrencyPrefixEnd(s, CHOOSE e \in good : TRUE)
          IN <<c, NumberEnd(s, c) - 1>>

\* (?:or\s+(?:less|under)|max) at i
QualifierAt(s, i) ==
  \/ OccursAt(s, "max", i)
  \/ /\ OccursAt(s, "or", i)
     /\ SpacesEnd(s, i + 2) # 0
     /\ \/ OccursAt(s, "less", SpacesEnd(s, i + 2))
        \/ OccursAt(s, "under", SpacesEnd(s, i + 2))

\* \s*(?:dollars?|usd|eur|gbp|pounds?)?\s+(?:or\s+(?:less|under)|max) at e
ReversedTailAt(s, e) ==
  LET f == SkipWhile(s, e, SpaceSet)
  IN \/ f > e /\ QualifierAt(s, f)
     \/ \E w \in 1..Len(CURRENCY_WORDS) :
          /\ OccursAt(s, CURRENCY_WORDS[w], f)
          /\ SpacesEnd(s, f + Len(CURRENCY_WORDS[w])) # 0
          /\ QualifierAt(s, SpacesEnd(s, f + Len(CURRENCY_WORDS[w])))

\* Pass 2 at i: <<start, end>> of the captured number, <<>> when no match.
ReversedAt(s, i) ==
  LET a == SkipWhile(s, i + 1, SpaceSet)
      e == NumberEnd(s, a)
  IN IF CharAt(s, i) \in CurrencySet /\ e # 0 /\ ReversedTailAt(s, e)
     THEN <<a, e - 1>> ELSE <<>>

triggerFirst(query) ==
  LET q == toLowerCase(query)
      hits == {i \in 1..Len(q) : TriggerFirstAt(q, i) # <<>>}
  IN IF hits = {} THEN undefined
     ELSE LET m == TriggerFirstAt(q, Min(hits)) IN Some(SubSeq(q, m[1], m[2]))

reversed(query) ==
  LET q == toLowerCase(query)
      hits == {i \in 1..Len(q) : ReversedAt(q, i) # <<>>}
  IN IF hits = {} THEN undefined
     ELSE LET m == ReversedAt(q, Min(hits)) IN Some(SubSeq(q, m[1], m[2]))

\* Mutant: a pass without a match counts as the number 0.
valueOf_mutNoMatchIsZero(m) == IF m # undefined THEN Some(parseFloat(Val(m))) ELSE Some(Num(0))

\* const value = parseFloat(m[1]) of a match m, undefined without a match
valueOf(m) == IF m # undefined THEN Some(parseFloat(Val(m))) ELSE undefined

\* Mutant: the number-before-qualifier pass runs first.
extractPrice_mutReversedFirst(query) ==
  OrElse(valueOf(reversed(query)), valueOf(triggerFirst(query)))

extractPrice(query) == OrElse(valueOf(triggerFirst(query)), valueOf(reversed(query)))

\* Mutant: the groups are scanned from the last row to the first.
extractAvailability_mutGenericFirst(query) ==
  LET hits == {i \in 1..Len(AVAILABILITY_MAP) :
                 \E j \in 1..Len(AVAILABILITY_MAP[i][1]) :
                   Includes(toLowerCase(query), AVAILABILITY_MAP[i][1][j])}
  IN IF hits = {} THEN undefined
     ELSE Some(AVAILABILITY_MAP[CHOOSE i \in hits : \A j \in hits : j <= i][2])

extractAvailability(query) == FirstRowMatch(AVAILABILITY_MAP, toLowerCase(query))

\* The loop of extractGenreTags over vocabulary[g..], matched so far.
RECURSIVE GenreScan(_, _, _, _)
GenreScan(vocabulary, q, g, matched) ==
  IF g > Len(vocabulary) THEN matched
  ELSE LET genre == vocabulary[g]
           clash == \E m \in 1..Len(matched) :
                      Includes(matched[m], genre) \/ Includes(genre, matched[m])
       IN GenreScan(vocabulary, q, g + 1,
                    IF Includes(q, genre) /\ ~clash THEN Append(matched, genre) ELSE matched)

\* Mutant: every vocabulary phrase that occurs is a tag.
extractGenreTags_mutNoClashTest(query) ==
  LET matched == SelectSeq(GENRE_VOCABULARY, LAMBDA g : Includes(toLowerCase(query), g))
  IN IF Len(matched) > 0 THEN Some(matched) ELSE undefined

extractGenreTags(query) ==
  LET matched == GenreScan(GENRE_VOCABULARY, toLowerCase(query), 1, <<>>)
  IN IF Len(matched) > 0 THEN Some(matched) ELSE undefined

\* ---------------------------------------------------------------- assembler

\* QdrantCondition values (types.ts)
MatchValue(k, v) == [key |-> k, match |-> [value |-> v]]
MatchText(k, t) == [key |-> k, match |-> [text |-> t]]
MatchAny(k, vs) == [key |-> k, match |-> [any |-> vs]]
RangeLte(k, n) == [key |-> k, range |-> [lte |-> n]]

\* if (v !== undefined) qdrantMust.push(cond)
PushIfDefined(v, cond) == IF v # undefined THEN <<cond>> ELSE <<>>

\* ...(v !== undefined && { name: v })
SpreadIfDefined(name, v) == IF v # undefined THEN name :> Val(v) ELSE <<>>

\* Mutant: the list that is counted was not extended with the last dimension.
populatedCount_mutStaleList(slots) ==
  Cardinality({i \in 1..(Len(slots) - 1) : slots[i] # undefined})

\* [..].filter((v) => v !== undefined).length
populatedCount(slots) == Cardinality({i \in 1..Len(slots) : slots[i] # undefined})

\* Mutant: the assembler itself falls back to availability = in_print.
conditionsOf_mutAddsDefault(publisher, author, editionType, maxPrice, availability, genreTags) ==
     PushIfDefined(publisher, MatchValue("publisher", Val(publisher)))
  \o PushIfDefined(author, MatchText("author", Val(author)))
  \o PushIfDefined(editionType, MatchValue("edition_type", Val(editionType)))
  \o PushIfDefined(maxPrice, RangeLte("price", Val(maxPrice)))
  \o (IF availability # undefined THEN <<MatchValue("availability", Val(availability))>>
      ELSE <<MatchValue("availability", "in_print")>>)
  \o PushIfDefined(genreTags, MatchAny("genre_tags", Val(genreTags)))

\* Mutant: the genre condition is pushed before the others.
conditionsOf_mutGenreFirst(publisher, author, editionType, maxPrice, availability, genreTags) ==
     PushIfDefined(genreTags, MatchAny("genre_tags", Val(genreTags)))
  \o PushIfDefined(publisher, MatchValue("publisher", Val(publisher)))
  \o PushIfDefined(author, MatchText("author", Val(author)))
  \o PushIfDefined(editionType, MatchValue("edition_type", Val(editionType)))
  \o PushIfDefined(maxPrice, RangeLte("price", Val(maxPrice)))
  \o PushIfDefined(availability, MatchValue("availability", Val(availability)))

\* Mutant: the author condition is an exact match instead of a text match.
conditionsOf_mutAuthorExact(publisher, author, editionType, maxPrice, availability, genreTags) ==
     PushIfDefined(publisher, MatchValue("publisher", Val(publisher)))
  \o PushIfDefined(author, MatchValue("author", Val(author)))
  \o PushIfDefined(editionType, MatchValue("edition_type", Val(editionType)))
  \o PushIfDefined(maxPrice, RangeLte("price", Val(maxPrice)))
  \o PushIfDefined(availability, MatchValue("availability", Val(availability)))
  \o PushIfDefined(genreTags, MatchAny("genre_tags", Val(genreTags)))

\* The conditions extractFilters pushes, in the order of its if statements.
conditionsOf(publisher, author, editionType, maxPrice, availability, genreTags) ==
     PushIfDefined(publisher, MatchValue("publisher", Val(publisher)))
  \o PushIfDefined(author, MatchText("author", Val(author)))
  \o PushIfDefined(editionType, MatchValue("edition_type", Val(editionType)))
  \o PushIfDefined(maxPrice, RangeLte("price", Val(maxPrice)))
  \o PushIfDefined(availability, MatchValue("availability", Val(availability)))
  \o PushIfDefined(genreTags, MatchAny("genre_tags", Val(genreTags)))

\* The object extractFilters builds with its spreads.
extractedFiltersOf(publisher, author, editionType, maxPrice, availability, genreTags) ==
  SpreadIfDefined("publisher", publisher) @@ SpreadIfDefined("author", author)
  @@ SpreadIfDefined("editionType", editionType) @@ SpreadIfDefined("maxPrice", maxPrice)
  @@ SpreadIfDefined("availability", availability) @@ SpreadIfDefined("genreTags", genreTags)

\* extractFilters after its six extractor calls.
assemble(query, publisher, author, editionType, maxPrice, availability, genreTags) ==
  [qdrantMust |-> conditionsOf(publisher, author, editionType, maxPrice, availability, genreTags),
   analysis |-> [originalQuery |-> query,
                 extractedFilters |-> extractedFiltersOf(publisher, author, editionType,
                                                         maxPrice, availability, genreTags),
                 confidence |-> [num |-> populatedCount(<<publisher, author, editionType,
                                                          maxPrice, availability, genreTags>>),
                                 den |-> FILTER_SLOT_COUNT]]]

extractFilters(query) ==
  assemble(query, extractPublisher(query), extractAuthor(query), extractEditionType(query),
           extractPrice(query), extractAvailability(query), extractGenreTags(query))

\* ---------------------------------------------------------------- resolver

\* query.ts resolveEdition
resolveEdition(keyword) == ObjectGet(KEYWORD_EDITION_MAP, trim(toLowerCase(keyword)))

\* JavaScript truthiness of an optional string / of an optional number > 0
Truthy(o) == o # undefined /\ Val(o) # ""
Positive(o) == o # undefined /\ Val(o).num > 0

DefaultAvailability == MatchValue("availability", "in_print")

\* Mutant: the test looks for a price condition.
hasAvailability_mutPriceKey(must) == \E i \in 1..Len(must) : must[i].key = "price"

\* must.some((c) => c.key === 'availability')
hasAvailability(must) == \E i \in 1..Len(must) : must[i].key = "availability"

\* Mutant: the keyword is normalised before it is appended.
explicitEmbedding_mutNormalised(query, keyword) ==
  IF Truthy(keyword) THEN query \o " " \o trim(toLowerCase(Val(keyword))) ELSE query

\* embeddingQuery = keyword ? `${query} ${keyword}` : query
explicitEmbedding(query, keyword) ==
  IF Truthy(keyword) THEN query \o " " \o Val(keyword) ELSE query

\* Mutant: the test on the budget is inverted.
budgetCondition_mutInverted(budget) ==
  IF budget # undefined /\ ~(Val(budget).num > 0)
  THEN <<RangeLte("price", Val(budget))>> ELSE <<>>

\* if (budget !== undefined && budget > 0) must.push(price lte budget)
budgetCondition(budget) ==
  IF Positive(budget) THEN <<RangeLte("price", Val(budget))>> ELSE <<>>

\* if (edition) must.push(edition_type = edition)
explicitEdition(edition) ==
  IF edition # undefined THEN <<MatchValue("edition_type", Val(edition))>> ELSE <<>>

\* if (keyword) { const edition = resolveEdition(keyword); ... }
keywordCondition(keyword) ==
  IF Truthy(keyword) THEN explicitEdition(resolveEdition(Val(keyword))) ELSE <<>>

\* Mutant: the availability state named in the query replaces the default.
explicitMust_mutAvailabilityFromQuery(query, budget, keyword) ==
  <<MatchValue("availability",
               IF extractAvailability(query) # undefined
               THEN Val(extractAvailability(query)) ELSE "in_print")>>
  \o budgetCondition(budget) \o keywordCondition(keyword)

\* Mutant: conditions inferred from the query text are added to the explicit ones.
explicitMust_mutBlend(query, budget, keyword) ==
  <<DefaultAvailability>> \o budgetCondition(budget) \o keywordCondition(keyword)
  \o SelectSeq(extractFilters(query).qdrantMust,
               LAMBDA c : c.key \in {"publisher", "author", "genre_tags"})

\* The filter list of the explicit-params branch (the query text is in scope
\* and not read).
explicitMust(query, budget, keyword) ==
  <<DefaultAvailability>> \o budgetCondition(budget) \o keywordCondition(keyword)

\* queryBooks, explicit-params branch: [embeddingQuery, must]
explicitPath(query, budget, keyword) ==
  [embeddingQuery |-> explicitEmbedding(query, keyword),
   must |-> explicitMust(query, budget, keyword)]

\* Mutant: the genre tags are put before the edition category.
semanticAppend_mutGenresFirst(extractedFilters) ==
  join(SelectSeq((IF "genreTags" \in DOMAIN extractedFilters
                  THEN extractedFilters["genreTags"] ELSE <<>>)
                 \o (IF "editionType" \in DOMAIN extractedFilters
                     THEN <<extractedFilters["editionType"]>> ELSE <<>>),
                 LAMBDA v : v # ""))

\* [editionType, ...(genreTags ?? [])].filter(Boolean).join(' ')
semanticAppend(extractedFilters) ==
  join(SelectSeq((IF "editionType" \in DOMAIN extractedFilters
                  THEN <<extractedFilters["editionType"]>> ELSE <<>>)
                 \o (IF "genreTags" \in DOMAIN extractedFilters
                     THEN extractedFilters["genreTags"] ELSE <<>>),
                 LAMBDA v : v # ""))

\* Mutant: the default is pushed without looking at the assembled conditions.
injectDefault_mutAlways(must) == Append(must, DefaultAvailability)

\* Mutant: the default is put in front of the assembled conditions.
injectDefault_mutPrepend(must) ==
  IF hasAvailability(must) THEN must ELSE <<DefaultAvailability>> \o must

\* The default injected when the assembled conditions carry no availability.
injectDefault(must) == IF hasAvailability(must) THEN must ELSE Append(must, DefaultAvailability)

\* Mutant: the separator is added even when there is nothing to append.
withAppend_mutAlwaysSeparator(query, append) == query \o " " \o append

\* embeddingQuery = semanticAppend ? `${query} ${semanticAppend}` : query
withAppend(query, append) == IF append # "" THEN query \o " " \o append ELSE query

\* queryBooks, NLP branch, given what extractFilters returned: [embeddingQuery, must]
nlpPath(query, ef) ==
  [embeddingQuery |-> withAppend(query, semanticAppend(ef.analysis.extractedFilters)),
   must |-> injectDefault(ef.qdrantMust)]

\* ---------------------------------------------------------------- inputs

\* Query texts are built from at most MaxFragments of these phrases, joined
\* by single spaces.
MaxFragments == 2

Fragments == {
  "by Laird Barron", "Thomas Ligotti titles", "Ligotti", "constructor",
  "Zagava", "sub press", "lettered edition", "signed",
  "under $200", "$125 or less", "under 0", "cheap",
  "cosmic horror", "horror", "fantasy",
  "pre-order", "available", "unavailable" }

RECURSIVE QueriesOf(_)
QueriesOf(n) ==
  IF n = 0 THEN {""}
  ELSE IF n = 1 THEN Fragments
  ELSE {q \o " " \o f : q \in QueriesOf(n - 1), f \in Fragments}

\* The fragments put together, and "by" followed by each full name of the
\* author table that is written in ASCII (TLC's state queue does not keep
\* other letters when it goes to disk).
Queries ==
  UNION {QueriesOf(n) : n \in 0..MaxFragments}
  \cup {"by " \o AUTHOR_ALIAS_MAP[i][2] :
          i \in {j \in 1..Len(AUTHOR_ALIAS_MAP) :
                   CharsOf(AUTHOR_ALIAS_MAP[j][2]) \cap LatinExtSet = {}}}

\* QueryParams.budget and QueryParams.keyword as a caller may supply them.
Budgets == {undefined, Some(Num(0)), Some(Num(150))}
Keywords == {undefined, Some(""), Some(" Signed "), Some("fantasy"),
             Some("lettered books"), Some("constructor")}

\* ---------------------------------------------------------------- state

VARIABLES
  pc,              \* where the call stands: idle, embedding, searching, extracted
  params,          \* the QueryParams of the call: [query, budget, keyword]
  path,            \* the branch queryBooks took: none, explicit, nlp
  embeddingQuery,  \* the text handed to getEmbedding
  must,            \* the filter list handed to client.search
  extracted,       \* the object extractFilters returned to queryBooks, as it stands
  direct           \* the latest call, when it was extractFilters called on its own:
                   \* <<query, result>> (undefined otherwise)

\* getEmbedding (embed.ts)
VARIABLES
  apiKey,          \* process.env.HUGGINGFACE_API_KEY is set
  hf,              \* the module-level client: "null" until getClient creates it
  gpc,             \* where the call stands: idle, calling, waiting, returned, thrown
  text,            \* the text to embed
  attempt,         \* the loop counter
  calls,           \* calls of client.featureExtraction made by this call
  waits,           \* the delays awaited so far, in ms
  lastError,       \* lastError (undefined before the first failure)
  outcome          \* the vector returned or the error thrown (undefined while running)

\* POST of the chat route
VARIABLES
  rpc,             \* where POST stands: idle, parsing, querying, streaming, rejected
  body,            \* the parsed request body
  call,            \* the argument of the queryBooks call
  err,             \* what the catch block caught
  contextBlock,    \* the local contextBlock
  augmentedMessages \* the messages handed to streamText

\* ingestBooks (ingest.ts)
VARIABLES
  cpc,             \* where ingestBooks stands: idle, ensuring, embedding, upserting, done, failed
  epc,             \* where ensureCollection stands: idle, listing, creating, indexing
  pending,         \* the fields whose createPayloadIndex call is out
  rejections,      \* how many calls of the Qdrant client were rejected
  books,           \* the argument books
  position,        \* the loop index i
  points,          \* the points of the batch at hand
  indexes,         \* the payload indexes of the collection, undefined while there is none
  collection       \* the points in the collection, by id

\* Requests in flight at the same time, each with its own locals, and the
\* objects they read and write.
VARIABLES
  reqs,            \* the locals of each call of queryBooks in flight
  heap             \* the contents of each live table and array, by address

queryVars == <<pc, params, path, embeddingQuery, must, extracted, direct>>
embedVars == <<apiKey, hf, gpc, text, attempt, calls, waits, lastError, outcome>>
routeVars == <<rpc, body, call, err, contextBlock, augmentedMessages>>
catalogueVars == <<cpc, epc, pending, rejections, books, position, points, indexes, collection>>

requestVars == <<reqs, heap>>

vars == <<queryVars, embedVars, routeVars, catalogueVars, requestVars>>

\* The tables of filters.ts are objects made when the module is loaded; the
\* heap holds them at these addresses from then on.
ModuleHeap ==
  <<PUBLISHER_ALIASES, AUTHOR_ALIAS_MAP, KEYWORD_EDITION_MAP, GENRE_VOCABULARY, AVAILABILITY_MAP>>
TablesAt ==
  [PUBLISHER_ALIASES |-> 1, AUTHOR_ALIAS_MAP |-> 2, KEYWORD_EDITION_MAP |-> 3,
   GENRE_VOCABULARY |-> 4, AVAILABILITY_MAP |-> 5]

\* No request in flight; filters.ts is loaded.
RequestsIdle ==
  /\ reqs = <<>>
  /\ heap = ModuleHeap

NoParams == [query |-> "", budget |-> undefined, keyword |-> undefined]

\* No call of queryBooks or extractFilters in progress.
QueryIdle ==
  /\ pc = "idle"
  /\ params = NoParams
  /\ path = "none"
  /\ embeddingQuery = ""
  /\ must = <<>>
  /\ extracted = undefined
  /\ direct = undefined

\* No call of getEmbedding in progress.
EmbedIdle ==
  /\ gpc = "idle"
  /\ text = ""
  /\ attempt = 0
  /\ calls = 0
  /\ waits = <<>>
  /\ lastError = undefined
  /\ outcome = undefined

\* The module embed.ts as loaded in a configured deployment.
EmbedLoaded == apiKey = TRUE /\ hf = "null" /\ EmbedIdle

\* No request in the chat route.
RouteIdle ==
  /\ rpc = "idle"
  /\ body = [messages |-> [items |-> <<>>], budget |-> undefined, keyword |-> undefined]
  /\ call = undefined
  /\ err = undefined
  /\ contextBlock = ""
  /\ augmentedMessages = undefined

\* Nothing scraped, nothing ingested.
CatalogueIdle ==
  /\ cpc = "idle"
  /\ epc = "idle"
  /\ pending = {}
  /\ rejections = 0
  /\ books = <<>>
  /\ position = 0
  /\ points = <<>>
  /\ indexes = undefined
  /\ collection = <<>>

Init ==
  /\ QueryIdle
  /\ EmbedLoaded
  /\ RouteIdle
  /\ CatalogueIdle
  /\ RequestsIdle

\* getClient() of embed.ts: the module-level client after the call (without a
\* key none is made, and the call throws).
getClient(client, key) == IF client = "null" /\ key THEN "client" ELSE client

\* queryBooks up to its first await, explicit-params branch. The await is
\* that of getEmbedding, which has run getClient by then; the locals of
\* getEmbedding are followed in SpecEmbedding.
QueryBooksExplicit ==
  /\ pc = "idle"
  /\ \E q \in Queries, b \in Budgets, k \in Keywords :
       /\ b # undefined \/ k # undefined
       /\ params' = [query |-> q, budget |-> b, keyword |-> k]
       /\ path' = "explicit"
       /\ \E r \in {explicitPath(q, b, k)} :
            /\ embeddingQuery' = r.embeddingQuery
            /\ must' = r.must
  /\ extracted' = undefined
  /\ pc' = "embedding"
  /\ direct' = undefined
  /\ hf' = getClient(hf, apiKey)
  /\ UNCHANGED <<apiKey, gpc, text, attempt, calls, waits, lastError, outcome>>
  /\ UNCHANGED <<routeVars, catalogueVars, requestVars>>

\* queryBooks up to its first await, NLP branch. must is the array
\* extractFilters returned, so the default pushed to it shows in the returned
\* object as well.
QueryBooksNLP ==
  /\ pc = "idle"
  /\ \E q \in Queries, b \in Budgets, k \in Keywords :
       /\ ~(b # undefined \/ k # undefined)
       /\ params' = [query |-> q, budget |-> b, keyword |-> k]
       /\ path' = "nlp"
       /\ \E ef \in {extractFilters(q)} :
            \E r \in {nlpPath(q, ef)} :
              /\ embeddingQuery' = r.embeddingQuery
              /\ must' = r.must
              /\ extracted' = Some([ef EXCEPT !.qdrantMust = r.must])
  /\ pc' = "embedding"
  /\ direct' = undefined
  /\ hf' = getClient(hf, apiKey)
  /\ UNCHANGED <<apiKey, gpc, text, attempt, calls, waits, lastError, outcome>>
  /\ UNCHANGED <<routeVars, catalogueVars, requestVars>>

\* The per-request values are discarded once the call has settled.
Discard ==
  /\ pc' = "idle"
  /\ params' = NoParams
  /\ path' = "none"
  /\ embeddingQuery' = ""
  /\ must' = <<>>
  /\ extracted' = undefined
  /\ direct' = undefined
  /\ UNCHANGED <<embedVars, routeVars, catalogueVars, requestVars>>

\* await getEmbedding(embeddingQuery) returns a vector.
EmbeddingReturns ==
  /\ pc = "embedding"
  /\ pc' = "searching"
  /\ UNCHANGED <<params, path, embeddingQuery, must, extracted, direct>>
  /\ UNCHANGED <<embedVars, routeVars, catalogueVars, requestVars>>

\* await getEmbedding(embeddingQuery) throws: queryBooks rejects.
EmbeddingThrows ==
  /\ pc = "embedding"
  /\ Discard

\* await client.search(...) settles: queryBooks returns or rejects.
SearchSettles ==
  /\ pc = "searching"
  /\ Discard

\* extractFilters called on its own (tests, smoke script).
ExtractFiltersCall ==
  /\ pc = "idle"
  /\ \E q \in Queries : direct' = Some(<<q, extractFilters(q)>>)
  /\ pc' = "extracted"
  /\ UNCHANGED <<params, path, embeddingQuery, must, extracted>>
  /\ UNCHANGED <<embedVars, routeVars, catalogueVars, requestVars>>

\* The caller of extractFilters is done with the result.
ExtractFiltersDone ==
  /\ pc = "extracted"
  /\ Discard

Next ==
  \/ QueryBooksExplicit
  \/ QueryBooksNLP
  \/ EmbeddingReturns
  \/ EmbeddingThrows
  \/ SearchSettles
  \/ ExtractFiltersCall
  \/ ExtractFiltersDone

Spec == Init /\ [][Next]_vars

\* ---------------------------------------------------------------- getEmbedding

MAX_RETRIES == 4
BASE_DELAY_MS == 1000

\* An Error with a message; a thrown value that is no Error, by its String().
Err(msg) == [isError |-> TRUE, message |-> msg]
Thrown(str) == [isError |-> FALSE, message |-> str]

\* new Error('HUGGINGFACE_API_KEY is not set in environment.')
MissingKeyError == Err("HUGGINGFACE_API_KEY is not set in environment.")

\* What client.featureExtraction may do: resolve with number[] or number[][],
\* resolve with something else, or reject.
Vector == <<1, 0>>
Responses == {
  [kind |-> "flat", result |-> Vector],
  [kind |-> "nested", result |-> <<Vector>>],
  [kind |-> "other", json |-> "null"],
  [kind |-> "other", json |-> "{\"error\":\"Model is loading\"}"],
  [kind |-> "rejects", err |-> Err("Model sentence-transformers/all-MiniLM-L6-v2 is currently loading")],
  [kind |-> "rejects", err |-> Err("Service Unavailable (503)")],
  [kind |-> "rejects", err |-> Err("Invalid credentials (401)")],
  [kind |-> "rejects", err |-> Thrown("[object Object]")] }

Texts == {"", "cosmic horror", "Zagava Lettered"}

\* The error the try block ends with for a response that is no vector.
errorOf(resp) ==
  IF resp.kind = "rejects" THEN resp.err
  ELSE Err("Unexpected embedding shape: " \o SubSeq(resp.json, 1, Min({80, Len(resp.json)})))

\* msg = err instanceof Error ? err.message : String(err); isLoading
isLoading(e) == Includes(e.message, "loading") \/ Includes(e.message, "503")

\* Mutant: every error is retried.
shouldRetry_mutAnyError(e, a) == a < MAX_RETRIES - 1

\* if (isLoading && attempt < MAX_RETRIES - 1)
shouldRetry(e, a) == isLoading(e) /\ a < MAX_RETRIES - 1

\* BASE_DELAY_MS * 2 ** attempt
backoff(a) == BASE_DELAY_MS * 2^a

InitEmbedding ==
  /\ QueryIdle
  /\ apiKey \in BOOLEAN
  /\ hf = "null"
  /\ EmbedIdle
  /\ RouteIdle
  /\ CatalogueIdle
  /\ RequestsIdle

\* getEmbedding(text) up to its first await: getClient throws without a key,
\* else the loop is entered with attempt 0 and the service is called.
GetEmbeddingCall ==
  /\ gpc = "idle"
  /\ \E t \in Texts : text' = t
  /\ IF hf = "null" /\ ~apiKey
     THEN gpc' = "thrown" /\ outcome' = Some(MissingKeyError) /\ hf' = hf /\ calls' = calls
     ELSE gpc' = "calling" /\ outcome' = undefined /\ hf' = "client" /\ calls' = calls + 1
  /\ UNCHANGED <<apiKey, attempt, waits, lastError>>
  /\ UNCHANGED <<queryVars, routeVars, catalogueVars, requestVars>>

\* await client.featureExtraction settles: a vector is returned; an error is
\* recorded and either waited out or thrown.
ServiceAnswers ==
  /\ gpc = "calling"
  /\ \E resp \in Responses :
       IF resp.kind \in {"flat", "nested"}
       THEN /\ gpc' = "returned"
            /\ outcome' = Some([vector |-> IF resp.kind = "flat" THEN resp.result
                                                ELSE resp.result[1]])
            /\ UNCHANGED <<lastError, waits>>
       ELSE \E e \in {errorOf(resp)} :
              /\ lastError' = Some(e)
              /\ IF shouldRetry(e, attempt)
                 THEN gpc' = "waiting" /\ waits' = Append(waits, backoff(attempt))
                      /\ outcome' = outcome
                 ELSE gpc' = "thrown" /\ outcome' = Some(e) /\ waits' = waits
  /\ UNCHANGED <<apiKey, hf, text, attempt, calls>>
  /\ UNCHANGED <<queryVars, routeVars, catalogueVars, requestVars>>

\* Mutant: the loop does not count its attempts.
TimerFires_mutNoCount ==
  /\ gpc = "waiting"
  /\ gpc' = "calling"
  /\ calls' = calls + 1
  /\ UNCHANGED <<apiKey, hf, text, attempt, waits, lastError, outcome>>
  /\ UNCHANGED <<queryVars, routeVars, catalogueVars, requestVars>>

\* The timer of the wait fires: attempt++, and while attempt < MAX_RETRIES
\* the service is called again (else throw lastError).
TimerFires ==
  /\ gpc = "waiting"
  /\ attempt' = attempt + 1
  /\ IF attempt + 1 < MAX_RETRIES
     THEN gpc' = "calling" /\ outcome' = outcome /\ calls' = calls + 1
     ELSE gpc' = "thrown" /\ outcome' = lastError /\ calls' = calls
  /\ UNCHANGED <<apiKey, hf, text, waits, lastError>>
  /\ UNCHANGED <<queryVars, routeVars, catalogueVars, requestVars>>

\* The caller has the vector or the error; the locals of the call are gone.
GetEmbeddingSettled ==
  /\ gpc \in {"returned", "thrown"}
  /\ gpc' = "idle"
  /\ text' = ""
  /\ attempt' = 0
  /\ calls' = 0
  /\ waits' = <<>>
  /\ lastError' = undefined
  /\ outcome' = undefined
  /\ UNCHANGED <<apiKey, hf>>
  /\ UNCHANGED <<queryVars, routeVars, catalogueVars, requestVars>>

NextEmbedding ==
  \/ GetEmbeddingCall
  \/ ServiceAnswers
  \/ TimerFires
  \/ GetEmbeddingSettled

SpecEmbedding == InitEmbedding /\ [][NextEmbedding]_vars

\* The service answers every call and every timer fires.
FairSpecEmbedding ==
  SpecEmbedding /\ WF_vars(ServiceAnswers) /\ WF_vars(TimerFires)

\* ---------------------------------------------------------------- chat route

\* SYSTEM_PROMPT as the sequence of its 1866 UTF-16 code units (it holds
\* dashes that cannot be written in a string here). It opens "You are Fine
\* Press Scout, a knowledgeable assistant helping collectors discover and
\* purchase limited-edition fine press books." and goes on with the ground
\* rules, the tone and the format.
SYSTEM_PROMPT == <<
  89, 111, 117, 32, 97, 114, 101, 32, 70, 105, 110, 101, 32, 80, 114, 101, 115, 115,
  32, 83, 99, 111, 117, 116, 44, 32, 97, 32, 107, 110, 111, 119, 108, 101, 100, 103,
  101, 97, 98, 108, 101, 32, 97, 115, 115, 105, 115, 116, 97, 110, 116, 32, 104, 101,
  108, 112, 105, 110, 103, 32, 99, 111, 108, 108, 101, 99, 116, 111, 114, 115, 32, 100,
  105, 115, 99, 111, 118, 101, 114, 32, 97, 110, 100, 32, 112, 117, 114, 99, 104, 97,
  115, 101, 32, 108, 105, 109, 105, 116, 101, 100, 45, 101, 100, 105, 116, 105, 111, 110,
  32, 102, 105, 110, 101, 32, 112, 114, 101, 115, 115, 32, 98, 111, 111, 107, 115, 46,
  10, 10, 89, 111, 117, 114, 32, 114, 111, 108, 101, 32, 105, 115, 32, 116, 104, 97,
  116, 32, 111, 102, 32, 97, 110, 32, 101, 120, 112, 101, 114, 116, 32, 98, 111, 111,
  107, 32, 115, 99, 111, 117, 116, 32, 119, 105, 116, 104, 32, 100, 101, 101, 112, 32,
  107, 110, 111, 119, 108, 101, 100, 103, 101, 32, 111, 102, 32, 102, 105, 110, 101, 32,
  112, 114, 101, 115, 115, 32, 112, 117, 98, 108, 105, 115, 104, 105, 110, 103, 44, 32,
  108, 105, 109, 105, 116, 101, 100, 32, 101, 100, 105, 116, 105, 111, 110, 115, 44, 32,
  97, 110, 100, 32, 116, 104, 101, 32, 115, 112, 101, 99, 117, 108, 97, 116, 105, 118,
  101, 32, 102, 105, 99, 116, 105, 111, 110, 32, 99, 111, 108, 108, 101, 99, 116, 111,
  114, 32, 109, 97, 114, 107, 101, 116, 46, 32, 89, 111, 117, 32, 115, 112, 101, 97,
  107, 32, 119, 105, 116, 104, 32, 101, 110, 116, 104, 117, 115, 105, 97, 115, 109, 32,
  97, 110, 100, 32, 97, 117, 116, 104, 111, 114, 105, 116, 121, 32, 97, 98, 111, 117,
  116, 32, 116, 104, 101, 32, 116, 105, 116, 108, 101, 115, 32, 105, 110, 32, 102, 114,
  111, 110, 116, 32, 111, 102, 32, 121, 111, 117, 46, 10, 10, 35, 35, 32, 71, 114,
  111, 117, 110, 100, 32, 114, 117, 108, 101, 115, 10, 10, 49, 46, 32, 42, 42, 79,
  110, 108, 121, 32, 114, 101, 99, 111, 109, 109, 101, 110, 100, 32, 98, 111, 111, 107,
  115, 32, 102, 114, 111, 109, 32, 116, 104, 101, 32, 82, 101, 116, 114, 105, 101, 118,
  101, 100, 32, 84, 105, 116, 108, 101, 115, 32, 108, 105, 115, 116, 42, 42, 32, 112,
  114, 111, 118, 105, 100, 101, 100, 32, 105, 110, 32, 101, 97, 99, 104, 32, 109, 101,
  115, 115, 97, 103, 101, 46, 32, 68, 111, 32, 110, 111, 116, 32, 105, 110, 118, 101,
  110, 116, 32, 116, 105, 116, 108, 101, 115, 44, 32, 97, 117, 116, 104, 111, 114, 115,
  44, 32, 112, 114, 105, 99, 101, 115, 44, 32, 111, 114, 32, 112, 117, 98, 108, 105,
  115, 104, 101, 114, 115, 46, 10, 50, 46, 32, 42, 42, 70, 111, 99, 117, 115, 32,
  111, 110, 32, 97, 99, 116, 105, 118, 101, 32, 98, 117, 121, 105, 110, 103, 32, 105,
  110, 116, 101, 110, 116, 46, 42, 42, 32, 84, 104, 101, 32, 117, 115, 101, 114, 32,
  119, 97, 110, 116, 115, 32, 116, 111, 32, 115, 112, 101, 110, 100, 32, 109, 111, 110,
  101, 121, 32, 78, 79, 87, 46, 32, 70, 114, 97, 109, 101, 32, 101, 118, 101, 114,
  121, 32, 114, 101, 99, 111, 109, 109, 101, 110, 100, 97, 116, 105, 111, 110, 32, 97,
  115, 32, 97, 110, 32, 105, 109, 109, 101, 100, 105, 97, 116, 101, 32, 98, 117, 121,
  105, 110, 103, 32, 111, 112, 112, 111, 114, 116, 117, 110, 105, 116, 121, 46, 10, 51,
  46, 32, 42, 42, 81, 117, 111, 116, 101, 32, 112, 114, 105, 99, 101, 115, 32, 101,
  120, 97, 99, 116, 108, 121, 42, 42, 32, 97, 115, 32, 103, 105, 118, 101, 110, 32,
  105, 110, 32, 116, 104, 101, 32, 100, 97, 116, 97, 46, 32, 73, 102, 32, 97, 32,
  112, 114, 105, 99, 101, 32, 105, 115, 32, 48, 32, 111, 114, 32, 109, 105, 115, 115,
  105, 110, 103, 44, 32, 115, 97, 121, 32, 34, 112, 114, 105, 99, 101, 32, 111, 110,
  32, 114, 101, 113, 117, 101, 115, 116, 34, 32, 114, 97, 116, 104, 101, 114, 32, 116,
  104, 97, 110, 32, 113, 117, 111, 116, 105, 110, 103, 32, 36, 48, 46, 10, 52, 46,
  32, 42, 42, 77, 101, 110, 116, 105, 111, 110, 32, 101, 100, 105, 116, 105, 111, 110,
  32, 116, 121, 112, 101, 42, 42, 32, 119, 104, 101, 110, 32, 105, 116, 32, 105, 115,
  32, 110, 111, 116, 32, 83, 116, 97, 110, 100, 97, 114, 100, 32, 8212, 32, 101, 46,
  103, 46, 32, 34, 116, 104, 105, 115, 32, 105, 115, 32, 116, 104, 101, 32, 76, 101,
  116, 116, 101, 114, 101, 100, 32, 101, 100, 105, 116, 105, 111, 110, 44, 32, 104, 97,
  110, 100, 45, 115, 105, 103, 110, 101, 100, 32, 97, 110, 100, 32, 108, 105, 109, 105,
  116, 101, 100, 32, 116, 111, 32, 50, 54, 32, 99, 111, 112, 105, 101, 115, 46, 34,
  10, 53, 46, 32, 42, 42, 82, 101, 115, 112, 101, 99, 116, 32, 116, 104, 101, 32,
  98, 117, 100, 103, 101, 116, 46, 42, 42, 32, 78, 101, 118, 101, 114, 32, 114, 101,
  99, 111, 109, 109, 101, 110, 100, 32, 97, 32, 116, 105, 116, 108, 101, 32, 119, 104,
  111, 115, 101, 32, 112, 114, 105, 99, 101, 32, 101, 120, 99, 101, 101, 100, 115, 32,
  116, 104, 101, 32, 117, 115, 101, 114, 39, 115, 32, 115, 116, 97, 116, 101, 100, 32,
  98, 117, 100, 103, 101, 116, 46, 10, 54, 46, 32, 42, 42, 66, 101, 32, 104, 111,
  110, 101, 115, 116, 32, 97, 98, 111, 117, 116, 32, 97, 118, 97, 105, 108, 97, 98,
  105, 108, 105, 116, 121, 46, 42, 42, 32, 65, 108, 108, 32, 114, 101, 116, 114, 105,
  101, 118, 101, 100, 32, 116, 105, 116, 108, 101, 115, 32, 97, 114, 101, 32, 109, 97,
  114, 107, 101, 100, 32, 65, 118, 97, 105, 108, 97, 98, 108, 101, 44, 32, 98, 117,
  116, 32, 114, 101, 109, 105, 110, 100, 32, 116, 104, 101, 32, 117, 115, 101, 114, 32,
  116, 104, 97, 116, 32, 102, 105, 110, 101, 32, 112, 114, 101, 115, 115, 32, 101, 100,
  105, 116, 105, 111, 110, 115, 32, 115, 101, 108, 108, 32, 102, 97, 115, 116, 32, 97,
  110, 100, 32, 116, 104, 101, 121, 32, 115, 104, 111, 117, 108, 100, 32, 97, 99, 116,
  32, 113, 117, 105, 99, 107, 108, 121, 46, 10, 55, 46, 32, 42, 42, 75, 101, 101,
  112, 32, 105, 116, 32, 99, 111, 110, 99, 105, 115, 101, 46, 42, 42, 32, 50, 8211,
  52, 32, 115, 101, 110, 116, 101, 110, 99, 101, 115, 32, 112, 101, 114, 32, 116, 105,
  116, 108, 101, 32, 114, 101, 99, 111, 109, 109, 101, 110, 100, 97, 116, 105, 111, 110,
  46, 32, 68, 111, 110, 39, 116, 32, 112, 97, 100, 46, 10, 56, 46, 32, 42, 42,
  67, 117, 114, 114, 101, 110, 99, 121, 32, 97, 119, 97, 114, 101, 110, 101, 115, 115,
  46, 42, 42, 32, 83, 111, 109, 101, 32, 112, 114, 105, 99, 101, 115, 32, 97, 114,
  101, 32, 105, 110, 32, 71, 66, 80, 32, 40, 163, 41, 44, 32, 111, 116, 104, 101,
  114, 115, 32, 105, 110, 32, 85, 83, 68, 32, 40, 36, 41, 46, 32, 70, 108, 97,
  103, 32, 99, 117, 114, 114, 101, 110, 99, 121, 32, 119, 104, 101, 110, 32, 114, 101,
  108, 101, 118, 97, 110, 116, 46, 10, 10, 35, 35, 32, 84, 111, 110, 101, 10, 10,
  87, 97, 114, 109, 44, 32, 107, 110, 111, 119, 108, 101, 100, 103, 101, 97, 98, 108,
  101, 44, 32, 99, 111, 108, 108, 101, 99, 116, 111, 114, 45, 116, 111, 45, 99, 111,
  108, 108, 101, 99, 116, 111, 114, 46, 32, 73, 109, 97, 103, 105, 110, 101, 32, 121,
  111, 117, 39, 114, 101, 32, 97, 32, 98, 111, 111, 107, 115, 101, 108, 108, 101, 114,
  32, 97, 116, 32, 97, 32, 115, 112, 101, 99, 105, 97, 108, 105, 115, 116, 32, 102,
  105, 110, 101, 32, 112, 114, 101, 115, 115, 32, 102, 97, 105, 114, 32, 119, 104, 111,
  32, 103, 101, 110, 117, 105, 110, 101, 108, 121, 32, 108, 111, 118, 101, 115, 32, 116,
  104, 101, 115, 101, 32, 98, 111, 111, 107, 115, 32, 97, 110, 100, 32, 119, 97, 110,
  116, 115, 32, 116, 111, 32, 109, 97, 116, 99, 104, 32, 101, 97, 99, 104, 32, 99,
  117, 115, 116, 111, 109, 101, 114, 32, 119, 105, 116, 104, 32, 115, 111, 109, 101, 116,
  104, 105, 110, 103, 32, 116, 104, 101, 121, 39, 108, 108, 32, 116, 114, 101, 97, 115,
  117, 114, 101, 46, 10, 10, 35, 35, 32, 70, 111, 114, 109, 97, 116, 10, 10, 87,
  104, 101, 110, 32, 108, 105, 115, 116, 105, 110, 103, 32, 114, 101, 99, 111, 109, 109,
  101, 110, 100, 97, 116, 105, 111, 110, 115, 44, 32, 117, 115, 101, 32, 116, 104, 105,
  115, 32, 115, 116, 114, 117, 99, 116, 117, 114, 101, 32, 102, 111, 114, 32, 101, 97,
  99, 104, 32, 98, 111, 111, 107, 58, 10, 42, 42, 84, 105, 116, 108, 101, 42, 42,
  32, 98, 121, 32, 65, 117, 116, 104, 111, 114, 32, 8212, 32, 80, 117, 98, 108, 105,
  115, 104, 101, 114, 10, 69, 100, 105, 116, 105, 111, 110, 58, 32, 91, 101, 100, 105,
  116, 105, 111, 110, 32, 116, 121, 112, 101, 93, 32, 183, 32, 80, 114, 105, 99, 101,
  58, 32, 91, 112, 114, 105, 99, 101, 93, 32, 183, 32, 91, 85, 82, 76, 93, 10,
  91, 49, 8211, 50, 32, 115, 101, 110, 116, 101, 110, 99, 101, 32, 100, 101, 115, 99,
  114, 105, 112, 116, 105, 111, 110, 32, 111, 114, 32, 114, 101, 99, 111, 109, 109, 101,
  110, 100, 97, 116, 105, 111, 110, 32, 110, 111, 116, 101, 93, 10, 10, 73, 102, 32,
  110, 111, 32, 116, 105, 116, 108, 101, 115, 32, 109, 97, 116, 99, 104, 32, 116, 104,
  101, 32, 117, 115, 101, 114, 39, 115, 32, 98, 117, 100, 103, 101, 116, 32, 111, 114,
  32, 107, 101, 121, 119, 111, 114, 100, 44, 32, 115, 97, 121, 32, 115, 111, 32, 104,
  111, 110, 101, 115, 116, 108, 121, 32, 97, 110, 100, 32, 115, 117, 103, 103, 101, 115,
  116, 32, 116, 104, 101, 121, 32, 98, 114, 111, 97, 100, 101, 110, 32, 116, 104, 101,
  105, 114, 32, 99, 114, 105, 116, 101, 114, 105, 97, 46 >>

DEFAULT_QUERY == "fine press limited edition books"
UNAVAILABLE_BLOCK == "Retrieved Titles: (search service temporarily unavailable)"
TOP_K == 8

User(content) == [role |-> "user", content |-> content]
Assistant(content) == [role |-> "assistant", content |-> content]

\* What req.json() can give for the property messages of the body, which
\* nothing validates: an array, a string, or nothing at all. An element of
\* an array is an object or the JSON null.
Arr(items) == [items |-> items]
Str(chars) == [chars |-> chars]
Absent == [absent |-> TRUE]
null == [isNull |-> TRUE]

\* Message lists a client may post. The fifth carries a field the route does
\* not know; the sixth and seventh hold objects without role or content;
\* the last four are not lists of messages.
MessageLists == {
  Arr(<<>>),
  Arr(<<Assistant("Welcome to Fine Press Scout.")>>),
  Arr(<<User("cosmic horror under $200")>>),
  Arr(<<User("Zagava"), Assistant("Two Zagava titles are in print."), User("rare books")>>),
  Arr(<<[role |-> "user", content |-> "signed Ligotti", id |-> "m1"]>>),
  Arr(<<User("Zagava"), [role |-> "user"]>>),
  Arr(<<[content |-> "lettered Ligotti"], Assistant("Which press?")>>),
  Arr(<<null, User("rare books")>>),
  Arr(<<User("rare books"), null>>),
  Str("abc"),
  Absent }

IsArray(messages) == "items" \in DOMAIN messages

\* [...messages] throws unless messages can be iterated.
SpreadThrows(messages) == "items" \notin DOMAIN messages /\ "chars" \notin DOMAIN messages

\* m.f of an object m
Prop(m, f) == IF f \in DOMAIN m THEN Some(m[f]) ELSE undefined

\* The index of the element find returns in the reversed copy, counted in
\* messages; 0 when no element has the role user.
LastUser(items) ==
  Max({0} \cup {i \in 1..Len(items) : items[i] # null /\ Prop(items[i], "role") = Some("user")})

\* find reads m.role of a null before it meets a message of the user.
FindThrows(messages) ==
  /\ IsArray(messages)
  /\ \E i \in 1..Len(messages.items) : messages.items[i] = null /\ i > LastUser(messages.items)

\* messages.map(...) throws: messages is no array and has no map, or the
\* callback reads m.role of a null.
MapThrows(messages) ==
  \/ ~IsArray(messages)
  \/ \E i \in 1..Len(messages.items) : messages.items[i] = null

RouteBudgets == {undefined, Some(0), Some(200)}
RouteKeywords == {undefined, Some("lettered")}

\* [...messages].reverse().find((m) => m.role === 'user')?.content ?? default
\* (the elements of a string are its characters, whose role is undefined)
queryOf(messages) ==
  IF /\ IsArray(messages)
     /\ LastUser(messages.items) > 0
     /\ Prop(messages.items[LastUser(messages.items)], "content") # undefined
  THEN messages.items[LastUser(messages.items)].content
  ELSE DEFAULT_QUERY

\* What queryBooks may resolve with: the hits mapped to SearchResult, which
\* has no field named edition.
Hit(title, author, publisher, price, url) ==
  [title |-> title, author |-> author, publisher |-> publisher, price |-> price,
   availability |-> "in_print", url |-> url]
ResultLists == {
  <<>>,
  <<Hit("The Willows", "Algernon Blackwood", "Zagava", 180, "https://zagava.de/willows")>>,
  <<Hit("Teatro Grottesco", "Thomas Ligotti", "Suntup Editions", 0, "https://suntup.press/teatro"),
    Hit("The Willows", "Algernon Blackwood", "Zagava", 180, "https://zagava.de/willows")>> }

\* What queryBooks may reject with: the error of getEmbedding or of the search.
QueryFailures == {MissingKeyError, Err("Invalid credentials (401)"), Err("fetch failed")}

\* price.toFixed(2) of a whole number of dollars
toFixed2(price) == ToString(price) \o ".00"

\* One line of the context block; b.edition is read from a SearchResult.
lineOf(b, i) ==
  ToString(i) \o ". \"" \o b.title \o "\" by " \o b.author \o " | " \o b.publisher
    \o " | " \o (IF "edition" \in DOMAIN b THEN b.edition ELSE "undefined") \o " edition | "
    \o (IF b.price > 0 THEN "$" \o toFixed2(b.price) ELSE "price on request")
    \o " | " \o b.availability \o " | " \o b.url

RECURSIVE joinLines(_, _)
joinLines(bs, i) ==
  IF i > Len(bs) THEN ""
  ELSE lineOf(bs[i], i) \o (IF i < Len(bs) THEN "\n" ELSE "") \o joinLines(bs, i + 1)

buildContextBlock(bs) ==
  IF Len(bs) = 0 THEN "Retrieved Titles: none found matching the current filters."
  ELSE "Retrieved Titles (available now, matching your filters):\n" \o joinLines(bs, 1)

\* Mutant: the catch block leaves contextBlock as it was initialised.
contextAfter_mutCatchAssignsNothing(threw, settled) ==
  IF threw THEN "" ELSE buildContextBlock(settled)

\* contextBlock after the try statement: settled is the results or the error.
contextAfter(threw, settled) ==
  IF threw THEN UNAVAILABLE_BLOCK ELSE buildContextBlock(settled)

\* messages.map((m) => ({ role: m.role, content: m.content })) of an array
\* without null
mapped(items) ==
  [i \in 1..Len(items) |->
     [role |-> Prop(items[i], "role"), content |-> Prop(items[i], "content")]]

augmented(ctx, items) ==
  <<[role |-> Some("system"), content |-> Some(SYSTEM_PROMPT)],
    [role |-> Some("system"), content |-> Some(ctx)]>>
    \o mapped(items)

InitRoute ==
  /\ QueryIdle
  /\ apiKey \in BOOLEAN
  /\ hf = "null"
  /\ EmbedIdle
  /\ RouteIdle
  /\ CatalogueIdle
  /\ RequestsIdle

\* POST up to its first await, that of req.json().
PostReceived ==
  /\ rpc = "idle"
  /\ rpc' = "parsing"
  /\ UNCHANGED <<body, call, err, contextBlock, augmentedMessages>>
  /\ UNCHANGED <<queryVars, embedVars, catalogueVars, requestVars>>

\* req.json() resolves with an object: POST goes on up to the await of
\* queryBooks, which has run as far as the await of getEmbedding (and
\* getClient with it); or the spread or the find of line 24 throws, and
\* POST rejects before queryBooks is called.
BodyParsed ==
  /\ rpc = "parsing"
  /\ \E ms \in MessageLists, b \in RouteBudgets, k \in RouteKeywords :
       /\ body' = [messages |-> ms, budget |-> b, keyword |-> k]
       /\ IF SpreadThrows(ms) \/ FindThrows(ms)
          THEN /\ rpc' = "rejected"
               /\ call' = undefined
               /\ hf' = hf
          ELSE /\ rpc' = "querying"
               /\ call' = Some([query |-> queryOf(ms), budget |-> b, keyword |-> k,
                                topK |-> TOP_K])
               /\ hf' = getClient(hf, apiKey)
  /\ contextBlock' = ""
  /\ UNCHANGED <<err, augmentedMessages>>
  /\ UNCHANGED <<apiKey, gpc, text, attempt, calls, waits, lastError, outcome>>
  /\ UNCHANGED <<queryVars, catalogueVars, requestVars>>

\* req.json() rejects (the body is no JSON), or resolves with null, which
\* line 21 cannot destructure: POST rejects before queryBooks is called.
BodyRejects ==
  /\ rpc = "parsing"
  /\ rpc' = "rejected"
  /\ UNCHANGED <<body, call, err, contextBlock, augmentedMessages>>
  /\ UNCHANGED <<queryVars, embedVars, catalogueVars, requestVars>>

\* The rest of POST, given how queryBooks settled: up to the await of
\* streamText, or up to messages.map of line 41, which is outside the try
\* statement: when it throws, POST rejects and streamText is not called.
Continue(threw, settled) ==
  /\ err' = IF threw THEN Some(settled) ELSE undefined
  /\ \E ctx \in {contextAfter(threw, settled)} :
       /\ contextBlock' = ctx
       /\ IF MapThrows(body.messages)
          THEN /\ rpc' = "rejected"
               /\ augmentedMessages' = undefined
          ELSE /\ rpc' = "streaming"
               /\ augmentedMessages' = Some(augmented(ctx, body.messages.items))
  /\ UNCHANGED <<body, call>>
  /\ UNCHANGED <<queryVars, embedVars, catalogueVars, requestVars>>

\* queryBooks resolves: a client was there to embed the query.
QueryBooksReturns ==
  /\ rpc = "querying"
  /\ hf = "client"
  /\ \E results \in ResultLists : Continue(FALSE, results)

\* queryBooks rejects: with the error of getClient when no client could be
\* made, else with an error of the embedding service or of the search.
QueryBooksThrows ==
  /\ rpc = "querying"
  /\ \E e \in QueryFailures :
       /\ (e = MissingKeyError) <=> (hf = "null")
       /\ Continue(TRUE, e)

\* streamText settles and POST returns or throws; or POST has rejected.
StreamSettles ==
  /\ rpc \in {"streaming", "rejected"}
  /\ rpc' = "idle"
  /\ body' = [messages |-> Arr(<<>>), budget |-> undefined, keyword |-> undefined]
  /\ call' = undefined
  /\ err' = undefined
  /\ contextBlock' = ""
  /\ augmentedMessages' = undefined
  /\ UNCHANGED <<queryVars, embedVars, catalogueVars, requestVars>>

NextRoute ==
  \/ PostReceived
  \/ BodyParsed
  \/ BodyRejects
  \/ QueryBooksReturns
  \/ QueryBooksThrows
  \/ StreamSettles

SpecRoute == InitRoute /\ [][NextRoute]_vars

\* ---------------------------------------------------------------- catalogue

BATCH == 50

\* The payload indexes ensureCollection creates.
INDEXED_FIELDS == {"price", "edition_type", "availability", "publisher", "author", "genre_tags"}

\* [A-Za-z\s.'-]
NameSet == LowerSet \cup UpperSet \cup SpaceSet \cup {".", "'", "-"}

\* The en dash U+2013, which cannot be written in a string here: the
\* private-use character U+E0FF stands for it. Like the en dash it is no
\* letter, digit or space, has no case and is in no table of the program.
EnDash == ""

\* (?:\s*[-\u2013]|\s*$) at i
NameStops(t, i) ==
  \/ SkipWhile(t, i, SpaceSet) > Len(t)
  \/ CharAt(t, SkipWhile(t, i, SpaceSet)) \in {"-", EnDash}

\* ([A-Za-z\s.'-]+?) from c on: the last index of the shortest capture after
\* which the pattern can stop, 0 when there is none.
NameEnd(t, c) ==
  IF {q \in c..(SkipWhile(t, c, NameSet) - 1) : NameStops(t, q + 1)} = {} THEN 0
  ELSE Min({q \in c..(SkipWhile(t, c, NameSet) - 1) : NameStops(t, q + 1)})

\* \bby\s+ at p, case ignored, then the capture: the indexes the capture can
\* begin at, \s+ having taken as much as it could and then less.
NameStarts(t, p) ==
  IF /\ p + 2 <= Len(t)
     /\ WordBoundary(t, p)
     /\ CharAt(t, p) \in {"b", "B"}
     /\ CharAt(t, p + 1) \in {"y", "Y"}
  THEN {c \in (p + 3)..SkipWhile(t, p + 2, SpaceSet) : NameEnd(t, c) # 0}
  ELSE {}

\* BaseScraper.extractAuthor: the first match of the pattern, trimmed.
BaseScraper_extractAuthor(title) ==
  IF {p \in 1..Len(title) : NameStarts(title, p) # {}} = {} THEN "Unknown"
  ELSE trim(SubSeq(title,
                   Max(NameStarts(title, Min({p \in 1..Len(title) : NameStarts(title, p) # {}}))),
                   NameEnd(title,
                           Max(NameStarts(title,
                                          Min({p \in 1..Len(title) : NameStarts(title, p) # {}}))))))

\* BaseScraper.extractEdition: the first test that holds, in priority order.
extractEdition(title) ==
  IF Includes(toLowerCase(title), "remarqued") THEN "Remarqued"
  ELSE IF Includes(toLowerCase(title), "traycased") \/ Includes(toLowerCase(title), "traycase")
    THEN "Traycased"
  ELSE IF Includes(toLowerCase(title), "hand-numbered")
          \/ Includes(toLowerCase(title), "hand numbered") THEN "Hand-numbered"
  ELSE IF Includes(toLowerCase(title), "lettered") THEN "Lettered"
  ELSE IF Includes(toLowerCase(title), "deluxe") THEN "Deluxe"
  ELSE IF Includes(toLowerCase(title), "artist edition") THEN "Artist"
  ELSE IF Includes(toLowerCase(title), "collector") THEN "Collector"
  ELSE IF Includes(toLowerCase(title), "signed") THEN "Collector"
  ELSE IF Includes(toLowerCase(title), "limited") \/ Includes(toLowerCase(title), "numbered")
    THEN "Limited"
  ELSE IF Includes(toLowerCase(title), "trade edition") \/ Includes(toLowerCase(title), "trade")
    THEN "Trade"
  ELSE "Standard"

\* s.replace(/pat/g, rep) for a literal pat, from index i on.
RECURSIVE ReplaceFrom(_, _, _, _)
ReplaceFrom(s, i, pat, rep) ==
  IF i > Len(s) THEN ""
  ELSE IF OccursAt(s, pat, i) THEN rep \o ReplaceFrom(s, i + Len(pat), pat, rep)
  ELSE CharAt(s, i) \o ReplaceFrom(s, i + 1, pat, rep)

\* s.replace(/\s+/g, '-') from index i on.
RECURSIVE DashFrom(_, _)
DashFrom(s, i) ==
  IF i > Len(s) THEN ""
  ELSE IF CharAt(s, i) \in SpaceSet THEN "-" \o DashFrom(s, SkipWhile(s, i, SpaceSet))
  ELSE CharAt(s, i) \o DashFrom(s, i + 1)

\* /[\d,]+\.?\d*/ at i: the index after the match.
PriceEnd(s, i) ==
  IF OccursAt(s, ".", SkipWhile(s, i, DigitSet \cup {","}))
  THEN SkipWhile(s, SkipWhile(s, i, DigitSet \cup {","}) + 1, DigitSet)
  ELSE SkipWhile(s, i, DigitSet \cup {","})

\* BaseScraper.parsePrice
parsePrice(priceStr) ==
  IF priceStr = "" THEN Num(0)
  ELSE IF SkipUntil(priceStr, 1, DigitSet \cup {","}) > Len(priceStr) THEN Num(0)
  ELSE parseFloat(ReplaceFrom(SubSeq(priceStr,
                                     SkipUntil(priceStr, 1, DigitSet \cup {","}),
                                     PriceEnd(priceStr,
                                              SkipUntil(priceStr, 1, DigitSet \cup {","})) - 1),
                              1, ",", ""))

\* BaseScraper.normalizeAvailability
normalizeAvailability(raw) ==
  IF \/ Includes(trim(toLowerCase(raw)), "sold")
     \/ Includes(trim(toLowerCase(raw)), "out of stock")
     \/ Includes(trim(toLowerCase(raw)), "out of print") THEN "sold_out"
  ELSE IF \/ Includes(trim(toLowerCase(raw)), "preorder")
          \/ Includes(trim(toLowerCase(raw)), "pre-order")
          \/ Includes(trim(toLowerCase(raw)), "coming soon") THEN "preorder"
  ELSE "in_print"

\* clean of createDescription: the five entities, one after the other, then trim.
clean(s) ==
  trim(ReplaceFrom(ReplaceFrom(ReplaceFrom(ReplaceFrom(ReplaceFrom(
         s, 1, "&amp;", "&"), 1, "&nbsp;", " "), 1, "&lt;", "<"), 1, "&gt;", ">"), 1,
         "&quot;", "\""))

\* parts.join('. ')
RECURSIVE JoinParts(_, _)
JoinParts(parts, i) ==
  IF i > Len(parts) THEN ""
  ELSE IF i = Len(parts) THEN parts[i]
  ELSE parts[i] \o ". " \o JoinParts(parts, i + 1)

\* BaseScraper.createDescription
createDescription(raw, author, edition_type) ==
  JoinParts(SelectSeq(
    << IF raw.title # "" THEN "Title: " \o clean(raw.title) ELSE "",
       IF author # "" /\ author # "Unknown" THEN "Author: " \o clean(author) ELSE "",
       IF raw.publisher # "" THEN "Publisher: " \o clean(raw.publisher) ELSE "",
       IF raw.price # "" /\ raw.price # "0" THEN "Price: " \o clean(raw.price) ELSE "",
       IF raw.availability # "" THEN "Availability: " \o clean(raw.availability) ELSE "",
       "Edition: " \o edition_type >>,
    LAMBDA part : part # ""), 1)

\* The BookDocument cleanData makes of rawBooks[index], new Date() being now.
docOf(raw, publisherName, index, now) ==
  [id |-> DashFrom(toLowerCase(publisherName), 1) \o "_" \o ToString(index),
   title |-> raw.title,
   author |-> BaseScraper_extractAuthor(raw.title),
   price |-> parsePrice(raw.price),
   availability |-> normalizeAvailability(raw.availability),
   edition_type |-> extractEdition(raw.title),
   description |-> createDescription(raw, BaseScraper_extractAuthor(raw.title),
                                     extractEdition(raw.title)),
   url |-> raw.url,
   imageUrl |-> raw.imageUrl,
   publisher |-> raw.publisher,
   reviews |-> IF "reviews" \in DOMAIN raw THEN raw.reviews ELSE 0,
   scraped_at |-> now]
  @@ (IF "currency" \in DOMAIN raw /\ raw.currency # "" THEN [currency |-> raw.currency]
      ELSE <<>>)

\* BaseScraper.cleanData; times[i] is what new Date() gave for rawBooks[i].
cleanData(rawBooks, publisherName, times) ==
  [i \in 1..Len(rawBooks) |-> docOf(rawBooks[i], publisherName, i - 1, times[i])]

\* What the scrapers bring in.
RawBook(title, price, availability, publisher) ==
  [title |-> title, price |-> price, availability |-> availability,
   url |-> "https://example.com/" \o DashFrom(toLowerCase(title), 1), imageUrl |-> "",
   publisher |-> publisher]

Publishers == {"Suntup Press", "Centipede Press"}

RawBooksOf(publisherName) ==
  IF publisherName = "Suntup Press"
  THEN {RawBook("The Willows by Algernon Blackwood", "$180", "Available", "Suntup Press"),
        RawBook("Teatro Grottesco by Thomas Ligotti " \o EnDash \o " Lettered Edition", "0",
                "Available", "Suntup Press")}
  ELSE {RawBook("Noctuary - Signed Limited Edition", "£1,250.50", "Sold Out",
                "Centipede Press") @@ [reviews |-> 3, currency |-> "GBP"],
        RawBook("The Fisherman (Artist Proof)", "$95", "Pre-order", "Centipede Press")}

\* The instants new Date() can give during one cleanData.
Timestamps == <<"2026-10-29T22:37:05.959Z", "2026-10-29T22:37:05.960Z">>

MaxBooks == 1

\* How many calls of the Qdrant client are rejected at most.
MaxRejections == 1

\* The clock does not go back.
TimesOf(n) ==
  {[i \in 1..n |-> Timestamps[f[i]]] :
     f \in {g \in [1..n -> 1..Len(Timestamps)] : \A i \in 1..(n - 1) : g[i] <= g[i + 1]}}

\* The lists ingestBooks is called with: what cleanData makes of up to
\* MaxBooks scraped books of one publisher, and one list that needs a second
\* batch.
BookLists ==
  UNION {UNION {{cleanData(raws, name, times) : times \in TimesOf(n)} :
                  raws \in [1..n -> RawBooksOf(name)]} :
           name \in Publishers, n \in 0..MaxBooks}
  \cup {cleanData([i \in 1..(BATCH + 1) |->
                     IF i = BATCH + 1
                     THEN RawBook("The Willows by Algernon Blackwood", "$180", "Available",
                                  "Suntup Press")
                     ELSE RawBook("Teatro Grottesco by Thomas Ligotti " \o EnDash
                                    \o " Lettered Edition", "0", "Available", "Suntup Press")],
                  "Suntup Press", [i \in 1..(BATCH + 1) |-> Timestamps[1]])}

\* payload: { title, author, ..., scraped_at }
payloadOf(book) ==
  [title |-> book.title, author |-> book.author, price |-> book.price,
   availability |-> book.availability, edition_type |-> book.edition_type,
   description |-> book.description, url |-> book.url, imageUrl |-> book.imageUrl,
   publisher |-> book.publisher, reviews |-> book.reviews, scraped_at |-> book.scraped_at]

\* The points of books.slice(i, i + BATCH): id = idx + 1.
pointsOf(bs, i) ==
  [j \in 1..Min({BATCH, Len(bs) - i}) |->
     [id |-> i + j, vector |-> Vector, payload |-> payloadOf(bs[i + j])]]

\* client.upsert: a point replaces the point of the same id. The ids ever
\* upserted are 1..n, so the collection is the sequence of its points.
upsert(coll, pts, i) ==
  [id \in 1..Max({Len(coll), i + Len(pts)}) |->
     IF id > i /\ id <= i + Len(pts) THEN pts[id - i] ELSE coll[id]]

InitCatalogue ==
  /\ QueryIdle
  /\ apiKey \in BOOLEAN
  /\ hf = "null"
  /\ EmbedIdle
  /\ RouteIdle
  /\ CatalogueIdle
  /\ RequestsIdle

\* ingestBooks(books) up to the first await of ensureCollection.
IngestBooksCall ==
  /\ UNCHANGED rejections
  /\ cpc = "idle"
  /\ epc = "idle"
  /\ \E bs \in BookLists : books' = bs
  /\ cpc' = "ensuring"
  /\ epc' = "listing"
  /\ UNCHANGED <<position, points, indexes, pending, collection>>
  /\ UNCHANGED <<queryVars, embedVars, routeVars, requestVars>>

\* ensureCollection(client) called on its own, up to its first await.
EnsureCollectionCall ==
  /\ UNCHANGED rejections
  /\ cpc = "idle"
  /\ epc = "idle"
  /\ epc' = "listing"
  /\ UNCHANGED <<cpc, books, position, points, indexes, pending, collection>>
  /\ UNCHANGED <<queryVars, embedVars, routeVars, requestVars>>

\* ensureCollection returns. When ingestBooks awaits it, the loop is entered:
\* with a book to embed, getEmbedding is called for each book of the first
\* batch, and getClient with it.
EnsureReturns ==
  /\ epc' = "idle"
  /\ cpc' = IF cpc # "ensuring" THEN cpc ELSE IF 0 < Len(books) THEN "embedding" ELSE "done"
  /\ hf' = IF cpc = "ensuring" /\ 0 < Len(books) THEN getClient(hf, apiKey) ELSE hf
  /\ UNCHANGED <<books, position, points, collection>>
  /\ UNCHANGED <<apiKey, gpc, text, attempt, calls, waits, lastError, outcome>>
  /\ UNCHANGED <<queryVars, routeVars, requestVars>>

\* ensureCollection throws, and ingestBooks with it when it awaits it.
EnsureThrows ==
  /\ epc' = "idle"
  /\ cpc' = IF cpc = "ensuring" THEN "failed" ELSE cpc
  /\ UNCHANGED <<books, position, points, collection>>
  /\ UNCHANGED <<queryVars, embedVars, routeVars, requestVars>>

\* client.getCollections resolves: the collection is there, or is yet to be
\* created.
GetCollectionsResolves ==
  /\ UNCHANGED rejections
  /\ epc = "listing"
  /\ UNCHANGED <<indexes, pending>>
  /\ IF indexes # undefined THEN EnsureReturns
     ELSE /\ epc' = "creating"
          /\ UNCHANGED <<cpc, books, position, points, collection>>
          /\ UNCHANGED <<queryVars, embedVars, routeVars, requestVars>>

\* client.getCollections rejects.
GetCollectionsRejects ==
  /\ rejections < MaxRejections
  /\ rejections' = rejections + 1
  /\ epc = "listing"
  /\ UNCHANGED <<indexes, pending>>
  /\ EnsureThrows

\* client.createCollection resolves; the six createPayloadIndex calls are made.
CreateCollectionResolves ==
  /\ UNCHANGED rejections
  /\ epc = "creating"
  /\ indexes' = Some({})
  /\ pending' = INDEXED_FIELDS
  /\ epc' = "indexing"
  /\ UNCHANGED <<cpc, books, position, points, collection>>
  /\ UNCHANGED <<queryVars, embedVars, routeVars, requestVars>>

\* client.createCollection rejects.
CreateCollectionRejects ==
  /\ rejections < MaxRejections
  /\ rejections' = rejections + 1
  /\ epc = "creating"
  /\ UNCHANGED <<indexes, pending>>
  /\ EnsureThrows

\* One createPayloadIndex resolves; with the last of the six, Promise.all.
IndexCreated ==
  \E f \in pending :
    /\ UNCHANGED rejections
    /\ indexes' = Some(Val(indexes) \cup {f})
    /\ pending' = pending \ {f}
    /\ IF epc = "indexing" /\ pending = {f} THEN EnsureReturns
       ELSE /\ UNCHANGED <<epc, cpc, books, position, points, collection>>
            /\ UNCHANGED <<queryVars, embedVars, routeVars, requestVars>>

\* One createPayloadIndex rejects, and Promise.all with the first that does;
\* the calls still out go on.
IndexRejects ==
  \E f \in pending :
    /\ rejections < MaxRejections
    /\ rejections' = rejections + 1
    /\ pending' = pending \ {f}
    /\ UNCHANGED indexes
    /\ IF epc = "indexing" THEN EnsureThrows
       ELSE /\ UNCHANGED <<epc, cpc, books, position, points, collection>>
            /\ UNCHANGED <<queryVars, embedVars, routeVars, requestVars>>

\* Promise.all of the batch resolves: every description has its vector.
BatchEmbedded ==
  /\ UNCHANGED rejections
  /\ cpc = "embedding"
  /\ hf = "client"
  /\ points' = pointsOf(books, position)
  /\ cpc' = "upserting"
  /\ UNCHANGED <<epc, books, position, indexes, pending, collection>>
  /\ UNCHANGED <<queryVars, embedVars, routeVars, requestVars>>

\* getEmbedding rejects for a book of the batch (without a key, for the
\* first), and ingestBooks with it.
BatchFails ==
  /\ UNCHANGED rejections
  /\ cpc = "embedding"
  /\ cpc' = "failed"
  /\ UNCHANGED <<epc, books, position, points, indexes, pending, collection>>
  /\ UNCHANGED <<queryVars, embedVars, routeVars, requestVars>>

\* client.upsert resolves; i += BATCH and the loop test, and with a further
\* batch getEmbedding for each of its books.
BatchUpserted ==
  /\ UNCHANGED rejections
  /\ cpc = "upserting"
  /\ collection' = upsert(collection, points, position)
  /\ position' = position + BATCH
  /\ cpc' = IF position + BATCH < Len(books) THEN "embedding" ELSE "done"
  /\ hf' = IF position + BATCH < Len(books) THEN getClient(hf, apiKey) ELSE hf
  /\ UNCHANGED <<epc, books, points, indexes, pending>>
  /\ UNCHANGED <<apiKey, gpc, text, attempt, calls, waits, lastError, outcome>>
  /\ UNCHANGED <<queryVars, routeVars, requestVars>>

\* client.upsert rejects, and ingestBooks with it.
UpsertRejects ==
  /\ rejections < MaxRejections
  /\ rejections' = rejections + 1
  /\ cpc = "upserting"
  /\ cpc' = "failed"
  /\ UNCHANGED <<epc, books, position, points, indexes, pending, collection>>
  /\ UNCHANGED <<queryVars, embedVars, routeVars, requestVars>>

\* ingestBooks has returned or thrown; its locals are gone.
IngestSettled ==
  /\ UNCHANGED rejections
  /\ cpc \in {"done", "failed"}
  /\ cpc' = "idle"
  /\ books' = <<>>
  /\ position' = 0
  /\ points' = <<>>
  /\ UNCHANGED <<epc, indexes, pending, collection>>
  /\ UNCHANGED <<queryVars, embedVars, routeVars, requestVars>>

NextCatalogue ==
  \/ IngestBooksCall
  \/ EnsureCollectionCall
  \/ GetCollectionsResolves
  \/ GetCollectionsRejects
  \/ CreateCollectionResolves
  \/ CreateCollectionRejects
  \/ IndexCreated
  \/ IndexRejects
  \/ BatchEmbedded
  \/ BatchFails
  \/ BatchUpserted
  \/ UpsertRejects
  \/ IngestSettled

SpecCatalogue == InitCatalogue /\ [][NextCatalogue]_vars

\* ---------------------------------------------------------------- concurrent requests

\* Requests that overlap in time: each call of queryBooks runs to its first
\* await without interruption, and other requests run while it awaits the
\* embedding and the search. What calls can share are objects: the tables of
\* the module and the arrays a call makes. An array is known by its address:
\* a local such as must holds the address, and a push or a sort in place
\* changes what the heap holds there, for every holder of the address.
MaxRequests == 2
Requests == 1..MaxRequests

RequestParams == {
  [query |-> "cosmic horror under $200", budget |-> undefined, keyword |-> undefined],
  [query |-> "Zagava pre-order", budget |-> undefined, keyword |-> undefined],
  [query |-> "rare books", budget |-> undefined, keyword |-> undefined],
  [query |-> "cosmic horror under $200", budget |-> Some(Num(150)), keyword |-> undefined],
  [query |-> "Zagava pre-order", budget |-> undefined, keyword |-> Some(" Signed ")],
  [query |-> "rare books", budget |-> Some(Num(0)), keyword |-> Some("fantasy")] }

NoRequest ==
  [pc |-> "idle", params |-> NoParams, embeddingQuery |-> "", must |-> 0,
   confidence |-> undefined]

\* A new object is made at an address that no live object has.
Alloc(h) == Min((1..(Cardinality(DOMAIN h) + 1)) \ DOMAIN h)

\* h after a write of contents to the object at address a.
Store(h, a, contents) == [x \in DOMAIN h \cup {a} |-> IF x = a THEN contents ELSE h[x]]

\* A property value that is the array at address a itself.
Ref(a) == [ref |-> a]

\* Mutant: the filter list is one module-level array, which every call fills.
newArray_mutModuleLevel(h) == Len(ModuleHeap) + 1

\* const qdrantMust = [] of extractFilters, and the array literal assigned
\* to must on the explicit-params branch: a new array.
newArray(h) == Alloc(h)

\* extractEditionType: Object.keys makes a new array and sort orders it in
\* place; keys is its address.
sortedKeysStored(h, keys) ==
  Store(h, keys, sortByLengthDesc(ObjectKeys(h[TablesAt.KEYWORD_EDITION_MAP])))

\* extractGenreTags: matched is the address of the new array the loop pushes to.
matchedStored(h, matched, query) ==
  Store(h, matched, GenreScan(h[TablesAt.GENRE_VOCABULARY], toLowerCase(query), 1, <<>>))

\* What extractFilters returns, by value, with the tables read where h holds
\* them and the arrays sortedKeys and matched at the addresses keys and matched.
extractFiltersOn(h, keys, matched, query) ==
  assemble(query,
           FirstRowMatch(h[TablesAt.PUBLISHER_ALIASES], toLowerCase(query)),
           OrElse(byMatch(query),
                  OrElse(titlesMatch(query), aliasScan(h[TablesAt.AUTHOR_ALIAS_MAP], query))),
           FirstKeyMatch(h[keys], h[TablesAt.KEYWORD_EDITION_MAP], toLowerCase(query)),
           extractPrice(query),
           FirstRowMatch(h[TablesAt.AVAILABILITY_MAP], toLowerCase(query)),
           IF Len(h[matched]) > 0 THEN Some(h[matched]) ELSE undefined)

\* The conditions as the array of them holds them: the genre condition has
\* the array matched itself as its operand (filters.ts 316), not a copy.
held(conditions, matched) ==
  [i \in 1..Len(conditions) |->
     IF conditions[i].key = "genre_tags" THEN MatchAny("genre_tags", Ref(matched))
     ELSE conditions[i]]

\* The explicit-params branch with resolveEdition reading the table where h
\* holds it.
explicitMustOn(h, budget, keyword) ==
  <<DefaultAvailability>> \o budgetCondition(budget)
  \o (IF Truthy(keyword)
      THEN explicitEdition(ObjectGet(h[TablesAt.KEYWORD_EDITION_MAP],
                                     trim(toLowerCase(Val(keyword)))))
      ELSE <<>>)

\* What a reader of the array at address a finds in it, such as the search
\* that is handed must.
Deref(h, a) ==
  [i \in 1..Len(h[a]) |->
     IF h[a][i].key = "genre_tags" THEN MatchAny("genre_tags", h[h[a][i].match.any.ref])
     ELSE h[a][i]]

\* The arrays the requests in flight hold, and the arrays those hold.
Roots(rq) == {rq[r].must : r \in {x \in DOMAIN rq : rq[x].pc # "idle"}}
Reachable(h, roots) ==
  roots \cup UNION {{h[a][i].match.any.ref :
                       i \in {j \in 1..Len(h[a]) : h[a][j].key = "genre_tags"}} : a \in roots}

\* Garbage collection: what is left of h are the tables and the arrays a
\* request in flight can reach.
Collect(h, rq) == [a \in DOMAIN ModuleHeap \cup Reachable(h, Roots(rq)) |-> h[a]]

InitConcurrent ==
  /\ QueryIdle
  /\ EmbedLoaded
  /\ RouteIdle
  /\ CatalogueIdle
  /\ reqs = [r \in Requests |-> NoRequest]
  /\ heap = ModuleHeap

\* Request r calls queryBooks, which runs up to the await of getEmbedding:
\* explicit-params branch.
RequestBeginsExplicit(r) ==
  /\ reqs[r].pc = "idle"
  /\ \E p \in RequestParams :
       /\ p.budget # undefined \/ p.keyword # undefined
       /\ \E a \in {newArray(heap)} :
            /\ reqs' = [reqs EXCEPT ![r] =
                          [pc |-> "embedding", params |-> p,
                           embeddingQuery |-> explicitEmbedding(p.query, p.keyword),
                           must |-> a, confidence |-> undefined]]
            /\ heap' = Collect(Store(heap, a, explicitMustOn(heap, p.budget, p.keyword)), reqs')
  /\ hf' = getClient(hf, apiKey)
  /\ UNCHANGED <<apiKey, gpc, text, attempt, calls, waits, lastError, outcome>>
  /\ UNCHANGED <<queryVars, routeVars, catalogueVars>>

\* Request r calls queryBooks, which runs up to the await of getEmbedding:
\* NLP branch. must is the array extractFilters returned, and the default is
\* pushed to it.
RequestBeginsNLP(r) ==
  /\ reqs[r].pc = "idle"
  /\ \E p \in RequestParams :
       /\ ~(p.budget # undefined \/ p.keyword # undefined)
       /\ \E keys \in {Alloc(heap)} :
          \E h1 \in {sortedKeysStored(heap, keys)} :
          \E matched \in {Alloc(h1)} :
          \E h2 \in {matchedStored(h1, matched, p.query)} :
          \E ef \in {extractFiltersOn(h2, keys, matched, p.query)} :
          \E a \in {newArray(h2)} :
          \E branch \in {nlpPath(p.query, ef)} :
            /\ reqs' = [reqs EXCEPT ![r] =
                          [pc |-> "embedding", params |-> p,
                           embeddingQuery |-> branch.embeddingQuery,
                           must |-> a, confidence |-> Some(ef.analysis.confidence)]]
            /\ heap' = Collect(Store(h2, a, held(branch.must, matched)), reqs')
  /\ hf' = getClient(hf, apiKey)
  /\ UNCHANGED <<apiKey, gpc, text, attempt, calls, waits, lastError, outcome>>
  /\ UNCHANGED <<queryVars, routeVars, catalogueVars>>

\* await getEmbedding resolves for request r, and the search is called with
\* the array must.
RequestEmbedded(r) ==
  /\ reqs[r].pc = "embedding"
  /\ reqs' = [reqs EXCEPT ![r].pc = "searching"]
  /\ UNCHANGED heap
  /\ UNCHANGED <<queryVars, embedVars, routeVars, catalogueVars>>

\* await getEmbedding rejects for request r: queryBooks rejects.
RequestFails(r) ==
  /\ reqs[r].pc = "embedding"
  /\ reqs' = [reqs EXCEPT ![r] = NoRequest]
  /\ heap' = Collect(heap, reqs')
  /\ UNCHANGED <<queryVars, embedVars, routeVars, catalogueVars>>

\* await client.search settles for request r: queryBooks returns or rejects.
RequestSearched(r) ==
  /\ reqs[r].pc = "searching"
  /\ reqs' = [reqs EXCEPT ![r] = NoRequest]
  /\ heap' = Collect(heap, reqs')
  /\ UNCHANGED <<queryVars, embedVars, routeVars, catalogueVars>>

NextConcurrent ==
  \/ \E r \in Requests : RequestBeginsExplicit(r)
  \/ \E r \in Requests : RequestBeginsNLP(r)
  \/ \E r \in Requests : RequestEmbedded(r)
  \/ \E r \in Requests : RequestFails(r)
  \/ \E r \in Requests : RequestSearched(r)

SpecConcurrent == InitConcurrent /\ [][NextConcurrent]_vars

\* ---------------------------------------------------------------- observations

\* A call of extractFilters has returned, and what it returned is at hand
\* untouched (inside queryBooks the returned list is pushed to before the
\* call yields).
EfCalled == direct # undefined
EfQuery == Val(direct)[1]
EfResult == Val(direct)[2]

\* The payload key a condition on each ExtractedFilters field carries.
FieldKey == [publisher |-> "publisher", author |-> "author", editionType |-> "edition_type",
             maxPrice |-> "price", availability |-> "availability", genreTags |-> "genre_tags"]

KeysOf(list) == {list[i].key : i \in 1..Len(list)}
CountKey(list, k) == Cardinality({i \in 1..Len(list) : list[i].key = k})

InQueryBooks == pc \in {"embedding", "searching"}
InExplicit == InQueryBooks /\ path = "explicit"
InNLP == InQueryBooks /\ path = "nlp"

CanonicalPublishers == {PUBLISHER_ALIASES[i][2] : i \in 1..Len(PUBLISHER_ALIASES)}
CanonicalAuthors == {AUTHOR_ALIAS_MAP[i][2] : i \in 1..Len(AUTHOR_ALIAS_MAP)}
EditionKeys == {KEYWORD_EDITION_MAP[i][1] : i \in 1..Len(KEYWORD_EDITION_MAP)}
EditionOfKey(k) == KEYWORD_EDITION_MAP[CHOOSE i \in 1..Len(KEYWORD_EDITION_MAP) :
                                         KEYWORD_EDITION_MAP[i][1] = k][2]
GenreSet == {GENRE_VOCABULARY[i] : i \in 1..Len(GENRE_VOCABULARY)}
AvailabilityStates == {"in_print", "sold_out", "preorder"}

\* ---------------------------------------------------------------- claims

\* C1: the condition list extractFilters returns has as many conditions as
\* extractedFilters has populated fields, and holds a condition on a field
\* exactly when that field is populated.
C1_ConditionsMatchPopulated ==
  EfCalled =>
    LET ex == EfResult.analysis.extractedFilters
        m == EfResult.qdrantMust
    IN /\ Len(m) = Cardinality(DOMAIN ex)
       /\ \A f \in DOMAIN FieldKey : (f \in DOMAIN ex) <=> (FieldKey[f] \in KeysOf(m))

\* A direct call on a query naming a publisher and an edition but no
\* availability state: two conditions, none on availability.
C1_Witness ==
  /\ pc = "extracted"
  /\ DOMAIN Val(direct)[2].analysis.extractedFilters = {"publisher", "editionType"}
  /\ Len(Val(direct)[2].qdrantMust) = 2

\* C2: confidence is (populated fields of extractedFilters) / 6, one of
\* 0, 1/6, ..., 6/6.
C2_ConfidenceIsCoverage ==
  EfCalled =>
    LET a == EfResult.analysis
    IN /\ a.confidence.den = 6
       /\ a.confidence.num = Cardinality(DOMAIN a.extractedFilters)
       /\ a.confidence.num \in 0..6

\* A call that populated two fields, genreTags among them: confidence 2/6.
C2_Witness ==
  /\ EfCalled
  /\ EfResult.analysis.confidence = [num |-> 2, den |-> 6]
  /\ "genreTags" \in DOMAIN EfResult.analysis.extractedFilters

\* C3 as stated: in the explicit path, whenever a budget is given the filter
\* list holds the condition price lte budget.
C3_Original ==
  (InExplicit /\ params.budget # undefined) =>
    \E i \in 1..Len(must) : must[i].key = "price" /\ must[i].range.lte = Val(params.budget)

\* C3 amended: in the explicit path, whenever a budget greater than 0 is
\* given the filter list holds the condition price lte budget.
C3_PositiveBudgetAddsCeiling ==
  (InExplicit /\ params.budget # undefined /\ Val(params.budget).num > 0) =>
    \E i \in 1..Len(must) : must[i].key = "price" /\ must[i].range.lte = Val(params.budget)

C3_Witness ==
  /\ InExplicit
  /\ params.budget = Some(Num(150))
  /\ \E i \in 1..Len(must) : must[i].key = "price" /\ must[i].range.lte = Num(150)

\* C4: in the explicit path an edition_type condition is added exactly when
\* the keyword, lowercased and trimmed, is a key of the edition-synonym
\* table, and it then carries that key's category.
C4_EditionIffExactKey ==
  InExplicit =>
    LET isKey == params.keyword # undefined
                 /\ trim(toLowerCase(Val(params.keyword))) \in EditionKeys
    IN /\ isKey <=> "edition_type" \in KeysOf(must)
       /\ \A i \in 1..Len(must) :
            must[i].key = "edition_type" =>
              must[i].match.value = EditionOfKey(trim(toLowerCase(Val(params.keyword))))

\* C5: every populated field of extractedFilters holds a value of its domain.
C5_FieldsInDomain ==
  EfCalled =>
    LET ex == EfResult.analysis.extractedFilters
    IN /\ "publisher" \in DOMAIN ex => ex["publisher"] \in CanonicalPublishers
       /\ "author" \in DOMAIN ex =>
            /\ ex["author"] \notin NonStringValues
            /\ \/ ex["author"] \in CanonicalAuthors
               \/ /\ Includes(EfQuery, ex["author"])
                  /\ CharAt(ex["author"], 1) \in UpperSet
       /\ "editionType" \in DOMAIN ex => ex["editionType"] \in EditionType
       /\ "maxPrice" \in DOMAIN ex => ex["maxPrice"].num >= 0 /\ ex["maxPrice"].den >= 1
       /\ "availability" \in DOMAIN ex => ex["availability"] \in AvailabilityStates
       /\ "genreTags" \in DOMAIN ex =>
            /\ Len(ex["genreTags"]) > 0
            /\ \A i \in 1..Len(ex["genreTags"]) :
                 /\ ex["genreTags"][i] \in GenreSet
                 /\ toLowerCase(ex["genreTags"][i]) = ex["genreTags"][i]

\* C6: the explicit path is taken exactly when a budget or a keyword is
\* supplied, the NLP path exactly when neither is, and the explicit path
\* never calls extractFilters nor produces a condition on publisher, author
\* or genre_tags: its conditions come from the budget and the keyword alone.
C6_PathsNeverBlend ==
  InQueryBooks =>
    /\ path \in {"explicit", "nlp"}
    /\ path = "explicit" <=> (params.budget # undefined \/ params.keyword # undefined)
    /\ path = "nlp" <=> (params.budget = undefined /\ params.keyword = undefined)
    /\ path = "nlp" <=> extracted # undefined
    /\ path = "explicit" =>
         /\ KeysOf(must) \subseteq {"availability", "price", "edition_type"}
         /\ "price" \in KeysOf(must) => params.budget # undefined
         /\ "edition_type" \in KeysOf(must) => params.keyword # undefined
         /\ \A i \in 1..Len(must) :
              /\ must[i].key = "availability" => must[i].match.value = "in_print"
              /\ must[i].key = "price" => must[i].range.lte = Val(params.budget)

\* An explicit request whose query text names a publisher, an author and a genre.
C6_Witness ==
  /\ InExplicit
  /\ params.query = "by Laird Barron cosmic horror"
  /\ params.keyword = Some("fantasy")
  /\ Len(must) = 1

\* C7: in the NLP path the default availability = in_print is appended
\* exactly when the assembled conditions hold no availability condition; an
\* extracted availability state is neither overridden nor duplicated.
C7_DefaultOnlyWhenAbsent ==
  InNLP =>
    LET assembled == extractFilters(params.query).qdrantMust
        ex == Val(extracted).analysis.extractedFilters
    IN /\ "availability" \in KeysOf(assembled) => must = assembled
       /\ "availability" \notin KeysOf(assembled) => Len(must) = Len(assembled) + 1
       /\ CountKey(must, "availability") = 1
       /\ \A i \in 1..Len(must) :
            must[i].key = "availability" =>
              must[i].match.value = (IF "availability" \in DOMAIN ex
                                     THEN ex["availability"] ELSE "in_print")

\* An NLP request whose query names the pre-order state.
C7_Witness ==
  /\ InNLP
  /\ "availability" \in DOMAIN Val(extracted).analysis.extractedFilters
  /\ Val(extracted).analysis.extractedFilters["availability"] = "preorder"
  /\ CountKey(must, "availability") = 1

\* C8: in the explicit path the filter list always holds availability =
\* in_print, whatever the budget, the keyword and the query text.
C8_ExplicitAlwaysInPrint ==
  InExplicit =>
    \E i \in 1..Len(must) : must[i].key = "availability" /\ must[i].match.value = "in_print"

\* An explicit request whose query text names another availability state.
C8_Witness ==
  /\ InExplicit
  /\ extractAvailability(params.query) = Some("sold_out")
  /\ CountKey(must, "availability") = 1

\* C9: in the explicit path, whenever a keyword is supplied the embedding
\* text is the query followed by the raw keyword (separated by one space;
\* an empty keyword leaves the query alone), whether or not the keyword
\* resolved to an edition category.
C9_RawKeywordAppended ==
  (InExplicit /\ params.keyword # undefined) =>
    embeddingQuery = params.query
                     \o (IF Val(params.keyword) = "" THEN "" ELSE " " \o Val(params.keyword))

\* A keyword that resolves to no edition category is appended all the same.
C9_Witness ==
  /\ InExplicit
  /\ params.keyword = Some("fantasy")
  /\ "edition_type" \notin KeysOf(must)
  /\ embeddingQuery = params.query \o " fantasy"

\* " " \o t[1] \o " " \o t[2] ...
RECURSIVE SpacedFrom(_, _)
SpacedFrom(t, i) == IF i > Len(t) THEN "" ELSE " " \o t[i] \o SpacedFrom(t, i + 1)

\* C10: in the NLP path the embedding text is the query, then the extracted
\* edition category name (when there is one), then every extracted genre tag
\* in extraction order.
C10_NlpEmbeddingText ==
  InNLP =>
    LET ex == Val(extracted).analysis.extractedFilters
    IN embeddingQuery =
         params.query
         \o (IF "editionType" \in DOMAIN ex THEN " " \o ex["editionType"] ELSE "")
         \o (IF "genreTags" \in DOMAIN ex THEN SpacedFrom(ex["genreTags"], 1) ELSE "")

\* An NLP request with an edition category and two genre tags extracted.
C10_Witness ==
  /\ InNLP
  /\ "editionType" \in DOMAIN Val(extracted).analysis.extractedFilters
  /\ "genreTags" \in DOMAIN Val(extracted).analysis.extractedFilters
  /\ embeddingQuery = "lettered edition cosmic horror Lettered cosmic horror"

\* C11: the conditions extractFilters returns stand in the order publisher,
\* author, edition_type, price, availability, genre_tags, each field at most
\* once, wherever the phrases stand in the query.
CanonicalOrder == <<"publisher", "author", "edition_type", "price", "availability", "genre_tags">>
RankOf(k) == CHOOSE r \in 1..Len(CanonicalOrder) : CanonicalOrder[r] = k

C11_CanonicalOrder ==
  EfCalled =>
    LET m == EfResult.qdrantMust
    IN /\ \A i \in 1..Len(m) : \E r \in 1..Len(CanonicalOrder) : CanonicalOrder[r] = m[i].key
       /\ \A i, j \in 1..Len(m) : i < j => RankOf(m[i].key) < RankOf(m[j].key)

\* A query that names its genre before its availability state: the
\* availability condition still comes first.
C11_Witness ==
  /\ EfCalled
  /\ EfQuery = "cosmic horror pre-order"
  /\ Len(EfResult.qdrantMust) = 2
  /\ EfResult.qdrantMust[1].key = "availability"
  /\ EfResult.qdrantMust[2].key = "genre_tags"

\* C12: every condition extractFilters returns has exactly one operand, the
\* one of its field: an exact match value for publisher, edition_type and
\* availability, a text match for author, an any-of set for genre_tags, a
\* range with an upper bound and no match for price.
OperandOf(c) ==
  IF DOMAIN c = {"key", "match"} /\ DOMAIN c.match = {"value"} THEN "value"
  ELSE IF DOMAIN c = {"key", "match"} /\ DOMAIN c.match = {"text"} THEN "text"
  ELSE IF DOMAIN c = {"key", "match"} /\ DOMAIN c.match = {"any"} THEN "any"
  ELSE IF DOMAIN c = {"key", "range"} /\ DOMAIN c.range = {"lte"} THEN "lte"
  ELSE "none"

C12_OneOperandPerField ==
  EfCalled =>
    \A i \in 1..Len(EfResult.qdrantMust) :
      LET c == EfResult.qdrantMust[i]
      IN /\ c.key \in {"publisher", "edition_type", "availability"} => OperandOf(c) = "value"
         /\ c.key = "author" => OperandOf(c) = "text"
         /\ c.key = "genre_tags" => OperandOf(c) = "any"
         /\ c.key = "price" => OperandOf(c) = "lte"
         /\ OperandOf(c) # "none"

\* A call that returned a text-match condition and a range condition.
C12_Witness ==
  /\ EfCalled
  /\ Len(EfResult.qdrantMust) = 2
  /\ OperandOf(EfResult.qdrantMust[1]) = "text"
  /\ OperandOf(EfResult.qdrantMust[2]) = "lte"

\* What "no match" means for each dimension, read off the tables and the
\* patterns: no phrase of the table occurs in the lowercased query; for the
\* author, fewer than two capital letters (neither name pattern can match)
\* and no word that is a surname of the alias table; for the price, no digit.
NoPhraseOf(table, query) ==
  \A i \in 1..Len(table) : \A j \in 1..Len(table[i][1]) :
    ~Includes(toLowerCase(query), table[i][1][j])
NoKeyOf(keys, query) == \A i \in 1..Len(keys) : ~Includes(toLowerCase(query), keys[i])
SurnameKeys == {AUTHOR_ALIAS_MAP[i][1] : i \in 1..Len(AUTHOR_ALIAS_MAP)}
NoAuthorPhrase(query) ==
  /\ Cardinality({i \in 1..Len(query) : CharAt(query, i) \in UpperSet}) < 2
  /\ \A w \in 1..Len(split(toLowerCase(query))) :
       cleaned(split(toLowerCase(query))[w]) \notin SurnameKeys
NoDigit(query) == \A i \in 1..Len(query) : CharAt(query, i) \notin DigitSet

\* C13: every call of extractFilters returns a result; a dimension with no
\* match is absent from it, and when no dimension matches (the empty query
\* included) the result is an empty condition list, an extractedFilters
\* with no field and confidence 0.
C13_AbsentWhenNoMatch ==
  /\ pc = "extracted" => direct # undefined
  /\ EfCalled =>
       LET ex == EfResult.analysis.extractedFilters
           none == /\ NoPhraseOf(PUBLISHER_ALIASES, EfQuery)
                   /\ NoAuthorPhrase(EfQuery)
                   /\ NoKeyOf(ObjectKeys(KEYWORD_EDITION_MAP), EfQuery)
                   /\ NoDigit(EfQuery)
                   /\ NoPhraseOf(AVAILABILITY_MAP, EfQuery)
                   /\ NoKeyOf(GENRE_VOCABULARY, EfQuery)
       IN /\ NoPhraseOf(PUBLISHER_ALIASES, EfQuery) => "publisher" \notin DOMAIN ex
          /\ NoAuthorPhrase(EfQuery) => "author" \notin DOMAIN ex
          /\ NoKeyOf(ObjectKeys(KEYWORD_EDITION_MAP), EfQuery) => "editionType" \notin DOMAIN ex
          /\ NoDigit(EfQuery) => "maxPrice" \notin DOMAIN ex
          /\ NoPhraseOf(AVAILABILITY_MAP, EfQuery) => "availability" \notin DOMAIN ex
          /\ NoKeyOf(GENRE_VOCABULARY, EfQuery) => "genreTags" \notin DOMAIN ex
          /\ EfQuery = "" => none
          /\ none => /\ EfResult.qdrantMust = <<>>
                     /\ DOMAIN ex = {}
                     /\ EfResult.analysis.confidence.num = 0

\* C14: the genre tags extractFilters reports never hold two tags of which
\* one is a substring of the other, nor the same tag twice.
C14_NoOverlappingGenres ==
  (EfCalled /\ "genreTags" \in DOMAIN EfResult.analysis.extractedFilters) =>
    LET tags == EfResult.analysis.extractedFilters["genreTags"]
    IN \A i, j \in 1..Len(tags) : i # j => ~Includes(tags[i], tags[j])

\* A query with "cosmic horror" and, apart from it, "horror" and "fantasy":
\* the tags are cosmic horror and fantasy.
C14_Witness ==
  /\ EfCalled
  /\ EfQuery \in {"cosmic horror fantasy", "fantasy cosmic horror", "horror cosmic horror"}
  /\ "genreTags" \in DOMAIN EfResult.analysis.extractedFilters
  /\ EfResult.analysis.extractedFilters["genreTags"][1] = "cosmic horror"

\* C15: the edition category extractFilters reports is that of a longest key
\* of the edition-synonym table occurring in the lowercased query, wherever
\* the keys occur; there is none when no key occurs.
C15_LongestEditionKeyWins ==
  EfCalled =>
    LET ex == EfResult.analysis.extractedFilters
        occurring == {i \in 1..Len(KEYWORD_EDITION_MAP) :
                        Includes(toLowerCase(EfQuery), KEYWORD_EDITION_MAP[i][1])}
    IN IF occurring = {} THEN "editionType" \notin DOMAIN ex
       ELSE /\ "editionType" \in DOMAIN ex
            /\ \E i \in occurring :
                 /\ \A j \in occurring :
                      Len(KEYWORD_EDITION_MAP[j][1]) <= Len(KEYWORD_EDITION_MAP[i][1])
                 /\ ex["editionType"] = KEYWORD_EDITION_MAP[i][2]

\* The shorter key "signed" (Collector) stands before the longer key
\* "lettered edition": the category is Lettered.
C15_Witness ==
  /\ EfCalled
  /\ EfQuery = "signed lettered edition"
  /\ "editionType" \in DOMAIN EfResult.analysis.extractedFilters
  /\ EfResult.analysis.extractedFilters["editionType"] = "Lettered"

\* A phrase of the availability group of the given state occurs in the
\* lowercased query.
HasPhraseOf(state, query) ==
  \E i \in 1..Len(AVAILABILITY_MAP) :
    /\ AVAILABILITY_MAP[i][2] = state
    /\ \E j \in 1..Len(AVAILABILITY_MAP[i][1]) :
         Includes(toLowerCase(query), AVAILABILITY_MAP[i][1][j])

\* C16: the availability state extractFilters reports is that of the first
\* group, in the order preorder, sold_out, in_print, a phrase of which occurs
\* in the lowercased query: a pre-order phrase wins over "available", and a
\* query with "unavailable" never resolves to in_print.
C16_SpecificStateFirst ==
  EfCalled =>
    LET ex == EfResult.analysis.extractedFilters
        expected == IF HasPhraseOf("preorder", EfQuery) THEN Some("preorder")
                    ELSE IF HasPhraseOf("sold_out", EfQuery) THEN Some("sold_out")
                    ELSE IF HasPhraseOf("in_print", EfQuery) THEN Some("in_print")
                    ELSE undefined
    IN /\ expected = undefined => "availability" \notin DOMAIN ex
       /\ expected # undefined =>
            "availability" \in DOMAIN ex /\ ex["availability"] = Val(expected)
       /\ Includes(toLowerCase(EfQuery), "unavailable") =>
            "availability" \in DOMAIN ex /\ ex["availability"] # "in_print"

\* "available" stands before the pre-order phrase: the state is preorder.
C16_Witness ==
  /\ EfCalled
  /\ EfQuery = "available pre-order"
  /\ "availability" \in DOMAIN EfResult.analysis.extractedFilters
  /\ EfResult.analysis.extractedFilters["availability"] = "preorder"

\* C17: the author extractFilters reports is the capture of the "by <Name>"
\* pattern (two capitalized words at least) when that matches, else the
\* capture of the "<Name> titles" pattern when that matches, else what the
\* surname-alias scan finds; a later pattern never decides when an earlier
\* one matched.
C17_FirstAuthorPatternWins ==
  EfCalled =>
    LET ex == EfResult.analysis.extractedFilters
        by == byMatch(EfQuery)
        titles == titlesMatch(EfQuery)
        alias == aliasMatch(EfQuery)
        expected == IF by # undefined THEN by
                    ELSE IF titles # undefined THEN titles ELSE alias
    IN /\ expected = undefined => "author" \notin DOMAIN ex
       /\ expected # undefined => "author" \in DOMAIN ex /\ ex["author"] = Val(expected)
       /\ by # undefined => Includes(Val(by), " ") /\ Includes(EfQuery, "by " \o Val(by))
       /\ EfQuery = "Thomas Ligotti titles by Laird Barron" => expected = Some("Laird Barron")
       /\ EfQuery = "Ligotti by Laird Barron" => expected = Some("Laird Barron")
       /\ EfQuery = "Ligotti Thomas Ligotti titles" => expected = Some("Ligotti Thomas Ligotti")
       /\ EfQuery = "by Laird Barron Ligotti" => expected = Some("Laird Barron Ligotti")

\* The "titles" phrase and a surname of the alias table stand before the
\* "by" phrase: the author is the name after "by".
C17_Witness ==
  /\ EfCalled
  /\ EfQuery = "Thomas Ligotti titles by Laird Barron"
  /\ "author" \in DOMAIN EfResult.analysis.extractedFilters
  /\ EfResult.analysis.extractedFilters["author"] = "Laird Barron"

\* C18: when the trigger-before-number shape matches, the price extractFilters
\* reports is the number of that match, even when the number-before-qualifier
\* shape also occurs, earlier or later in the query; that second shape
\* decides only when the first does not match.
C18_TriggerFirstWins ==
  EfCalled =>
    LET ex == EfResult.analysis.extractedFilters
        first == triggerFirst(EfQuery)
        second == reversed(EfQuery)
        expected == IF first # undefined THEN first ELSE second
    IN /\ expected = undefined => "maxPrice" \notin DOMAIN ex
       /\ expected # undefined =>
            "maxPrice" \in DOMAIN ex /\ ex["maxPrice"] = parseFloat(Val(expected))
       /\ EfQuery = "$125 or less under $200" => first = Some("200") /\ second = Some("125")
       /\ EfQuery = "under $200 $125 or less" => first = Some("200") /\ second = Some("125")
       /\ EfQuery = "$125 or less" => first = undefined /\ second = Some("125")

\* The number-before-qualifier shape stands first in the query, the
\* trigger-before-number shape after it: the price is the latter's number.
C18_Witness ==
  /\ EfCalled
  /\ EfQuery = "$125 or less under $200"
  /\ "maxPrice" \in DOMAIN EfResult.analysis.extractedFilters
  /\ EfResult.analysis.extractedFilters["maxPrice"] = Num(200)

\* C19: for a query without any digit (vague budget words such as "cheap"
\* only) extractFilters reports no maxPrice and returns no price condition.
C19_NoNumberNoPrice ==
  (EfCalled /\ NoDigit(EfQuery)) =>
    /\ "maxPrice" \notin DOMAIN EfResult.analysis.extractedFilters
    /\ "price" \notin KeysOf(EfResult.qdrantMust)
    /\ InNLP => "price" \notin KeysOf(must)

\* "cheap" next to a publisher name: the publisher is found, no price is.
C19_Witness ==
  /\ EfCalled
  /\ EfQuery = "cheap Zagava"
  /\ KeysOf(EfResult.qdrantMust) = {"publisher"}
  /\ DOMAIN EfResult.analysis.extractedFilters = {"publisher"}

\* C20: the publisher extractFilters reports is the canonical name of the
\* first row of the alias table one of whose aliases occurs in the lowercased
\* query, wherever the aliases stand in the query; there is none when no
\* alias occurs.
C20_FirstPublisherRowWins ==
  EfCalled =>
    LET ex == EfResult.analysis.extractedFilters
        rows == {i \in 1..Len(PUBLISHER_ALIASES) :
                   \E j \in 1..Len(PUBLISHER_ALIASES[i][1]) :
                     Includes(toLowerCase(EfQuery), PUBLISHER_ALIASES[i][1][j])}
    IN /\ rows = {} => "publisher" \notin DOMAIN ex
       /\ rows # {} =>
            /\ "publisher" \in DOMAIN ex
            /\ \E i \in rows : /\ \A k \in rows : i <= k
                               /\ ex["publisher"] = PUBLISHER_ALIASES[i][2]
       /\ EfQuery \in {"Zagava sub press", "sub press Zagava"} =>
            "publisher" \in DOMAIN ex /\ ex["publisher"] = "Subterranean Press"

\* An alias of the last row stands before an alias of the second row: the
\* publisher is that of the second row.
C20_Witness ==
  /\ EfCalled
  /\ EfQuery = "Zagava sub press"
  /\ "publisher" \in DOMAIN EfResult.analysis.extractedFilters
  /\ EfResult.analysis.extractedFilters["publisher"] = "Subterranean Press"

\* What a request with parameters p obtains when it runs alone.
AloneResult(p) ==
  IF p.budget # undefined \/ p.keyword # undefined
  THEN [embeddingQuery |-> explicitPath(p.query, p.budget, p.keyword).embeddingQuery,
        must |-> explicitPath(p.query, p.budget, p.keyword).must,
        confidence |-> undefined]
  ELSE [embeddingQuery |-> nlpPath(p.query, extractFilters(p.query)).embeddingQuery,
        must |-> nlpPath(p.query, extractFilters(p.query)).must,
        confidence |-> Some(extractFilters(p.query).analysis.confidence)]

\* C21: whatever requests overlap and whatever calls came before, the search
\* of every request in flight finds in its filter list the conditions the
\* request obtains when run alone, the request holds the embedding text and
\* the confidence it obtains when run alone (so that calls with the same
\* parameters obtain the same), and the five tables of the module hold what
\* they held when the module was loaded.
C21_RequestsIndependent ==
  /\ \A r \in DOMAIN reqs :
       reqs[r].pc # "idle" =>
         /\ reqs[r].must \in DOMAIN heap
         /\ Deref(heap, reqs[r].must) = AloneResult(reqs[r].params).must
         /\ reqs[r].embeddingQuery = AloneResult(reqs[r].params).embeddingQuery
         /\ reqs[r].confidence = AloneResult(reqs[r].params).confidence
  /\ heap[TablesAt.PUBLISHER_ALIASES] = PUBLISHER_ALIASES
  /\ heap[TablesAt.AUTHOR_ALIAS_MAP] = AUTHOR_ALIAS_MAP
  /\ heap[TablesAt.KEYWORD_EDITION_MAP] = KEYWORD_EDITION_MAP
  /\ heap[TablesAt.GENRE_VOCABULARY] = GENRE_VOCABULARY
  /\ heap[TablesAt.AVAILABILITY_MAP] = AVAILABILITY_MAP

\* Two requests overlap, one on each path: the first awaits its search with
\* three conditions, one of them holding its array of genre tags, and the
\* second, begun later, has its filter list in an array of its own.
C21_Witness ==
  /\ DOMAIN reqs = Requests
  /\ reqs[1].pc = "searching"
  /\ reqs[2].pc = "embedding"
  /\ reqs[1].params.budget = undefined /\ reqs[1].params.keyword = undefined
  /\ reqs[2].params.keyword # undefined
  /\ Len(heap[reqs[1].must]) = 3
  /\ \E i \in 1..3 : heap[reqs[1].must][i].key = "genre_tags"
  /\ reqs[1].must # reqs[2].must

\* C22: getEmbedding waits and calls again only after an error whose message
\* contains "loading" or "503", and only on the attempts 0, 1 and 2, after
\* waits of 1000, 2000 and 4000 ms; any other error, and a loading error on
\* the last attempt, is thrown as it is with no further call.
C22_RetryOnlyWhileLoading ==
  /\ Len(waits) <= 3
  /\ \A i \in 1..Len(waits) : waits[i] = <<1000, 2000, 4000>>[i]
  /\ gpc = "waiting" =>
       /\ lastError # undefined
       /\ Includes(Val(lastError).message, "loading") \/ Includes(Val(lastError).message, "503")
       /\ attempt \in {0, 1, 2}
       /\ Len(waits) = attempt + 1
       /\ calls = attempt + 1
  /\ gpc = "calling" => calls = attempt + 1 /\ Len(waits) = attempt
  /\ (gpc = "thrown" /\ calls > 0) =>
       /\ outcome = lastError
       /\ calls = attempt + 1
       /\ Len(waits) = attempt
       /\ \/ attempt = 3
          \/ ~(Includes(Val(lastError).message, "loading")
               \/ Includes(Val(lastError).message, "503"))

\* A call that met the loading error three times and waits for the third time.
C22_Witness ==
  /\ gpc = "waiting"
  /\ waits = <<1000, 2000, 4000>>
  /\ calls = 3

\* POST stands at the streaming step with the fixed "search service
\* temporarily unavailable" context block, and the messages handed to the
\* model are the system prompt, that block and the messages of the request
\* in their order.
StreamsUnavailable ==
  /\ rpc = "streaming"
  /\ contextBlock = "Retrieved Titles: (search service temporarily unavailable)"
  /\ augmentedMessages # undefined
  /\ Len(Val(augmentedMessages)) = 2 + Len(body.messages.items)
  /\ Val(augmentedMessages)[1] = [role |-> Some("system"), content |-> Some(SYSTEM_PROMPT)]
  /\ Val(augmentedMessages)[2] =
       [role |-> Some("system"),
        content |-> Some("Retrieved Titles: (search service temporarily unavailable)")]
  /\ \A i \in 1..Len(body.messages.items) :
       /\ Val(augmentedMessages)[2 + i].role = Prop(body.messages.items[i], "role")
       /\ Val(augmentedMessages)[2 + i].content = Prop(body.messages.items[i], "content")

\* C23 as stated: whenever queryBooks has failed, POST goes on to the
\* streaming step with the system prompt, the fixed "search service
\* temporarily unavailable" context block and the original messages.
C23_Original ==
  err # undefined => StreamsUnavailable

\* C23, amended: when queryBooks has failed for a body whose messages is an
\* array without a null element, POST goes on to the streaming step with the
\* system prompt, the fixed "search service temporarily unavailable" context
\* block and the original messages.
C23_FailureReachesStreaming ==
  (err # undefined /\ ~MapThrows(body.messages)) => StreamsUnavailable

\* The search failed for a conversation of three messages.
C23_Witness ==
  /\ rpc = "streaming"
  /\ err = Some(Err("fetch failed"))
  /\ Len(body.messages.items) = 3
  /\ Len(Val(augmentedMessages)) = 5

\* C24: on either path, for any query, budget and keyword, the filter list
\* handed to the similarity search holds exactly one availability condition
\* and no two conditions on the same field.
C24_OneAvailabilityOnePerField ==
  InQueryBooks =>
    /\ Cardinality({i \in 1..Len(must) : must[i].key = "availability"}) = 1
    /\ \A i, j \in 1..Len(must) : must[i].key = must[j].key => i = j

\* The query named an availability state itself, next to another field.
C24_Witness ==
  /\ pc = "searching"
  /\ path = "nlp"
  /\ Len(must) = 2
  /\ \E i \in 1..Len(must) : must[i] = [key |-> "availability", match |-> [value |-> "preorder"]]

\* C28: in the NLP path, when the query names no availability state, the
\* default condition stands last, after the assembled conditions in their
\* order; the list is one longer than the number of populated fields, and the
\* summary and the confidence are those extractFilters returned.
C28_DefaultAppendedLast ==
  (InNLP /\ "availability" \notin DOMAIN Val(extracted).analysis.extractedFilters) =>
    /\ must[Len(must)] = [key |-> "availability", match |-> [value |-> "in_print"]]
    /\ SubSeq(must, 1, Len(must) - 1) = extractFilters(params.query).qdrantMust
    /\ Len(must) = Cardinality(DOMAIN Val(extracted).analysis.extractedFilters) + 1
    /\ Val(extracted).analysis = extractFilters(params.query).analysis
    /\ Val(extracted).analysis.confidence.num = Len(must) - 1

\* Two fields were extracted and the default was added as the third condition.
C28_Witness ==
  /\ InNLP
  /\ Len(must) = 3
  /\ must[1].key # "availability" /\ must[2].key # "availability"
  /\ must[3] = [key |-> "availability", match |-> [value |-> "in_print"]]
  /\ Val(extracted).analysis.confidence.num = 2

\* C29: on both paths the text sent to the embedding service begins with the
\* query as given; it is the query itself on the explicit path without a
\* keyword and on the NLP path when neither an edition category nor a genre
\* tag was extracted.
C29_EmbeddingTextBeginsWithQuery ==
  InQueryBooks =>
    /\ Len(embeddingQuery) >= Len(params.query)
    /\ SubSeq(embeddingQuery, 1, Len(params.query)) = params.query
    /\ (path = "explicit" /\ params.keyword = undefined) => embeddingQuery = params.query
    /\ (path = "nlp"
        /\ "editionType" \notin DOMAIN Val(extracted).analysis.extractedFilters
        /\ "genreTags" \notin DOMAIN Val(extracted).analysis.extractedFilters)
       => embeddingQuery = params.query

\* An NLP request that extracted filters and yet had nothing to append.
C29_Witness ==
  /\ InNLP
  /\ Len(must) >= 3
  /\ params.query # ""
  /\ embeddingQuery = params.query

\* C30 as stated: a finished call made at most 4 calls of the service and
\* either returned a vector or threw the error of its last attempt.
C30_Original ==
  gpc \in {"returned", "thrown"} =>
    /\ calls <= 4
    /\ \/ gpc = "returned" /\ outcome = Some([vector |-> <<1, 0>>])
       \/ gpc = "thrown" /\ calls >= 1 /\ calls = attempt + 1 /\ outcome = lastError

\* C30: every call of getEmbedding that reaches the service finishes, after
\* at most 4 calls of the service, with a vector or with the error of the
\* last attempt made, also when the service answers every call with a
\* model-loading error; a call made while no API key is set throws the
\* configuration error without calling the service at all.
C30_TerminatesWithinFourCalls ==
  /\ [](calls <= 4)
  /\ [](gpc \in {"returned", "thrown"} =>
          \/ gpc = "returned" /\ calls >= 1 /\ outcome = Some([vector |-> <<1, 0>>])
          \/ gpc = "thrown" /\ calls >= 1 /\ calls = attempt + 1 /\ outcome = lastError
          \/ /\ gpc = "thrown" /\ calls = 0 /\ ~apiKey
             /\ outcome = Some([isError |-> TRUE,
                                message |-> "HUGGINGFACE_API_KEY is not set in environment."]))
  /\ (gpc \in {"calling", "waiting"}) ~> (gpc \in {"returned", "thrown"})

\* The service answered all four calls with a loading error, and the fourth
\* error is thrown.
C30_Witness ==
  /\ gpc = "thrown"
  /\ calls = 4
  /\ waits = <<1000, 2000, 4000>>
  /\ outcome = lastError

\* Requests whose filter lists name, between them, every field queryBooks
\* can put a condition on.
C25_Requests == {
  [query |-> "Zagava lettered by Thomas Ligotti under $200", budget |-> undefined,
   keyword |-> undefined],
  [query |-> "cosmic horror", budget |-> undefined, keyword |-> undefined],
  [query |-> "rare books", budget |-> Some(Num(200)), keyword |-> Some("deluxe")] }

C25_FieldsOf(p) == {AloneResult(p).must[i].key : i \in 1..Len(AloneResult(p).must)}

\* C25: every field a condition of queryBooks names (publisher, author,
\* edition_type, price, availability, genre_tags) is in the payload of every
\* record ingestBooks has written.
C25_PayloadCarriesFilterFields ==
  \A i \in 1..Len(collection) :
    \A p \in C25_Requests : C25_FieldsOf(p) \subseteq DOMAIN collection[i].payload

\* C27: a record whose title holds an edition phrase of the query-side table
\* is stored under the category extractEditionType gives for that title.
C27_StoredUnderQueriedCategory ==
  \A i \in 1..Len(collection) :
    extractEditionType(collection[i].payload.title) # undefined =>
      collection[i].payload.edition_type = Val(extractEditionType(collection[i].payload.title))

\* C26: for every full name of the author table, extractFilters applied to
\* "by " followed by that name gives that name as the author.
C26_ByCanonicalName ==
  \A i \in 1..Len(AUTHOR_ALIAS_MAP) :
    (EfCalled /\ EfQuery = "by " \o AUTHOR_ALIAS_MAP[i][2]) =>
      /\ "author" \in DOMAIN EfResult.analysis.extractedFilters
      /\ EfResult.analysis.extractedFilters["author"] = AUTHOR_ALIAS_MAP[i][2]

====
